---- MODULE Spec2Model ----
(***************************************************************************)
(* Model of src/data_generation/main.py, the HVAC seed-data generator.     *)
(*                                                                         *)
(* The program is modelled at these levels.                                *)
(*                                                                         *)
(* 1. The table store and the two run modes (main, generate_incremental_   *)
(*    data, save_to_csv).  A persisted table is the sequence of the        *)
(*    primary-key values of its CSV file, in file order: the key column is *)
(*    the only column of a persisted file the program reads back (lines    *)
(*    710-714 and the concatenated reference pools of lines 727-735).      *)
(*    Specifications Spec and SpecMissing.                                 *)
(*                                                                         *)
(* 2. The entity generators as functions from their parent tables and      *)
(*    requested count to the set of tables they can return, rows carrying  *)
(*    the key, the foreign keys and the columns that decide control flow   *)
(*    (service_type, invoice status).  Specification GenSpec.              *)
(*                                                                         *)
(* 3. One invocation of main step by step: the generator calls in the      *)
(*    order of the source, then the loop of save_to_csv over the           *)
(*    dictionary of tables, one file per step.  Specification RunSpec.     *)
(*                                                                         *)
(* 4. The value columns the generators compute (costs, invoice amounts,    *)
(*    payments, skills, hours, stock status), in integer units.            *)
(*    Specification ValueSpec.                                             *)
(*                                                                         *)
(* 5. The tables an incremental run passes to its generators.              *)
(*    Specification PoolSpec.                                              *)
(*                                                                         *)
(* random / Faker draws are nondeterministic choices over their ranges.    *)
(***************************************************************************)
EXTENDS Integers, Sequences, FiniteSets, TLC

VARIABLES
    store,          \* table name -> [exists, rows]: the seeds directory
    lastRun,        \* how the most recent invocation of main ended
    prevRun,        \* how the invocation before that ended
    incSinceFull,   \* successful incremental runs since the last full run
    gen,            \* GenSpec: the generator most recently called
    args,           \* GenSpec: the arguments it was called with
    out,            \* GenSpec: what it returned, or that it raised
    pc,             \* RunSpec: where the invocation of main in progress is
    mode,           \* RunSpec: "full" or "incremental", the branch of main
    called,         \* RunSpec: the tables whose generator it has called
    mem,            \* RunSpec: its local variables, name -> table
    written,        \* RunSpec: the files its save_to_csv has written
    runs            \* RunSpec: invocations of main so far

vars ==
    <<store, lastRun, prevRun, incSinceFull, gen, args, out, pc, mode, called,
      mem, written, runs>>
storeVars == <<store, lastRun, prevRun, incSinceFull>>
genVars == <<gen, args, out>>
runVars == <<pc, mode, called, mem, written, runs>>

----------------------------------------------------------------------------
(* Requested row counts of the full run (main, lines 904-924), scaled.     *)
N_CUSTOMERS == 2
N_TECHNICIANS == 1
N_EQUIPMENT == 1
N_PARTS == 1
N_INSTALLATIONS == 1
N_CALLS == 2
N_INCIDENTS == 1
N_VEHICLES == 1
N_ADDITIONAL == 1
N_SUBSCRIPTIONS == 1
N_APPOINTMENTS == 1
N_QUOTES == 1
N_FEEDBACK == 1
N_LEADS == 1

(* Batch sizes of the incremental run (lines 721-742), scaled.             *)
INC_CUSTOMERS == 1
INC_TECHNICIANS == 1
INC_EQUIPMENT == 1
INC_PARTS == 1
INC_CALLS == 2
INC_APPOINTMENTS == 1
INC_QUOTES == 1
INC_FEEDBACK == 1
INC_LEADS == 1

(* Incremental runs explored after a full run.                             *)
MaxInc == 2

(* generate_parts_usage's default avg_parts_per_call (line 159).           *)
avg_parts_per_call == 2

(* Python's None: a null foreign key, or n_invoices left at its default.   *)
(* Keys are >= 1 and counts >= 0, so -1 is neither.                        *)
None == -1

----------------------------------------------------------------------------
(* Helpers.                                                                *)

Range(s) == {s[i] : i \in DOMAIN s}

Min(a, b) == IF a <= b THEN a ELSE b

Max(a, b) == IF a >= b THEN a ELSE b

RECURSIVE SumSeq(_)
SumSeq(s) == IF s = <<>> THEN 0 ELSE Head(s) + SumSeq(Tail(s))

(* The largest value of a non-empty key column (Series.max()).             *)
MaxOf(s) == CHOOSE m \in Range(s) : \A x \in Range(s) : x <= m

(* Keys start, start+1, ..., start+n-1: "start_id + i for i in range(n)".  *)
Ids(start, n) == [i \in 1..n |-> start + i - 1]

(* int(x * 0.85), line 339.                                                *)
DefaultInvoices(n_calls) == (n_calls * 85) \div 100

(* The outcome of a call: a table, or an exception that propagates.        *)
Ok(rows) == [ok |-> TRUE, rows |-> rows]

Raised == [ok |-> FALSE, rows |-> <<>>]

----------------------------------------------------------------------------
(* The table store.                                                        *)

(* The keys of the datasets dictionary of main, lines 927-947.             *)
FullTables ==
    <<"customers", "technicians", "equipment_types", "parts",
      "installed_devices", "service_calls", "parts_usage",
      "incident_response", "vehicle_fleet", "mailing_list", "subscriptions",
      "invoices", "payments", "inventory", "appointments", "quotes",
      "work_orders", "customer_feedback", "leads">>

(* The keys of incremental_datasets, lines 745-759.                        *)
IncrementalTables ==
    <<"customers", "technicians", "equipment_types", "parts",
      "service_calls", "parts_usage", "invoices", "payments", "appointments",
      "quotes", "work_orders", "customer_feedback", "leads">>

(* The files generate_incremental_data reads, lines 704-708.               *)
RequiredTables ==
    <<"customers", "technicians", "equipment_types", "parts",
      "service_calls">>

Tables == Range(FullTables)

Absent == [exists |-> FALSE, rows |-> <<>>]

File(rows) == [exists |-> TRUE, rows |-> rows]

EmptyStore == [t \in Tables |-> Absent]

----------------------------------------------------------------------------
(* The vocabularies that decide how many rows a dependent table gets.      *)

(* Line 135 and line 871.                                                  *)
service_types ==
    <<"Maintenance", "Repair", "Installation", "Emergency", "Inspection">>

(* Line 344.                                                               *)
invoice_status == <<"Paid", "Pending", "Overdue", "Cancelled">>

----------------------------------------------------------------------------
(* The key column each generator returns, given the key columns of its     *)
(* parent tables.  An empty table is the column-less frame                 *)
(* pd.DataFrame([]) every generator returns for an empty row list, so      *)
(* reading a column of it, or random.choice of an empty key list, raises.  *)
(* A generator whose row count depends on random draws returns the set of  *)
(* its possible outcomes.                                                  *)

(* generate_customers, generate_technicians, generate_equipment_types,     *)
(* generate_parts, generate_leads: "i + 1 for i in range(n)".              *)
ids_base(n) == Ok(Ids(1, n))

(* A batch numbered as a full run numbers it, "i + 1 for i in range(n)".   *)
ids_base_incremental_from_one(n, start_id) == Ok(Ids(1, n))

(* generate_customers_incremental, generate_technicians_incremental,       *)
(* generate_equipment_types_incremental, generate_parts_incremental:       *)
(* "start_id + i for i in range(n)".                                       *)
ids_base_incremental(n, start_id) == Ok(Ids(start_id, n))

(* generate_installed_devices: n rows, each drawing a customer and an      *)
(* equipment key.                                                          *)
ids_installed_devices(customers, equipment, n) ==
    IF n > 0 /\ (customers = <<>> \/ equipment = <<>>)
    THEN Raised
    ELSE Ok(Ids(1, n))

(* generate_service_calls (start_id = 1) and                               *)
(* generate_service_calls_incremental: n rows, each drawing a customer, a  *)
(* technician and an equipment key; then df['labor_cost'] is read, which   *)
(* raises on the column-less frame of zero rows.                           *)
ids_service_calls(n, start_id, customers, technicians, equipment) ==
    IF n > 0 /\ (customers = <<>> \/ technicians = <<>> \/ equipment = <<>>)
    THEN Raised
    ELSE IF n <= 0
    THEN Raised
    ELSE Ok(Ids(start_id, n))

(* generate_parts_usage: per call random.randint(0, avg*2) rows, numbered  *)
(* len(parts_usage) + 1; each row draws a part key.                        *)
ids_parts_usage(service_calls, parts) ==
    { IF SumSeq(n_parts) > 0 /\ parts = <<>>
      THEN Raised
      ELSE Ok(Ids(1, SumSeq(n_parts)))
      : n_parts \in [1..Len(service_calls) -> 0..(avg_parts_per_call * 2)] }

(* generate_incident_response: one row per Emergency call, at most n; the  *)
(* service_type column of the calls is a column of independent draws from  *)
(* service_types.  A row draws a backup technician on a coin flip.         *)
ids_incident_response(service_calls, technicians, n) ==
    IF service_calls = <<>>
    THEN {Raised}
    ELSE UNION {
        LET emergency_calls ==
                {i \in 1..Len(service_calls) : ty[i] = "Emergency"}
            rows == Min(n, Cardinality(emergency_calls))
        IN  IF rows > 0 /\ technicians = <<>>
            THEN {Raised, Ok(Ids(1, rows))}
            ELSE {Ok(Ids(1, rows))}
        : ty \in [1..Len(service_calls) -> Range(service_types)] }

(* A fleet that keeps a vehicle only when the coin flip assigns it a       *)
(* technician.                                                             *)
ids_vehicle_fleet_assigned_only(technicians, n) ==
    IF n > 0 /\ technicians = <<>>
    THEN {Raised, Ok(<<>>)}
    ELSE {Ok(Ids(1, k)) : k \in 0..n}

(* generate_vehicle_fleet: n rows; a technician key is drawn on a coin     *)
(* flip.                                                                   *)
ids_vehicle_fleet(technicians, n) ==
    IF n > 0 /\ technicians = <<>>
    THEN {Raised, Ok(Ids(1, n))}
    ELSE {Ok(Ids(1, n))}

(* generate_mailing_list: one row per customer, then n_additional more,    *)
(* numbered len(mailing_list) + 1.                                         *)
ids_mailing_list(customers, n_additional) ==
    Ok(Ids(1, Len(customers) + Max(0, n_additional)))

(* generate_subscriptions: n rows, each drawing a customer key.            *)
ids_subscriptions(customers, n) ==
    IF n > 0 /\ customers = <<>> THEN Raised ELSE Ok(Ids(1, n))

(* generate_invoices: a sample of min(n_invoices, len) calls, numbered     *)
(* i + 1; n_invoices defaults to int(len * 0.85).                          *)
ids_invoices(service_calls, n_invoices) ==
    LET n == IF n_invoices = None
             THEN DefaultInvoices(Len(service_calls))
             ELSE n_invoices
    IN  Ok(Ids(1, Min(n, Len(service_calls))))

(* generate_payments: payment_id counts the rows appended; a Paid invoice  *)
(* gets one, a Pending invoice gets one on a coin flip.  The status column *)
(* of the invoices is a column of independent draws from invoice_status.   *)
ids_payments(invoices) ==
    IF invoices = <<>>
    THEN {Raised}
    ELSE { LET paying ==
                {i \in 1..Len(invoices) :
                    \/ status[i] = "Paid"
                    \/ status[i] = "Pending" /\ coin[i]}
           IN  Ok(Ids(1, Cardinality(paying)))
           : status \in [1..Len(invoices) -> Range(invoice_status)],
             coin \in [1..Len(invoices) -> BOOLEAN] }

(* generate_inventory: inventory_id = part_id, one row per part.           *)
ids_inventory(parts) == Ok(parts)

(* generate_appointments: one row per service call, then                   *)
(* n_appointments - len(appointments) more, each drawing a customer and a  *)
(* technician key; appointment_id counts the rows.                         *)
ids_appointments(customers, technicians, service_calls, n_appointments) ==
    LET remaining_appointments == n_appointments - Len(service_calls)
    IN  IF remaining_appointments > 0
           /\ (customers = <<>> \/ technicians = <<>>)
        THEN Raised
        ELSE Ok(Ids(1, Len(service_calls) + Max(0, remaining_appointments)))

(* generate_quotes: n rows, each drawing a customer key, and an equipment  *)
(* key when the quote has an equipment cost (a coin flip).                 *)
ids_quotes(customers, equipment, n) ==
    IF n > 0 /\ customers = <<>>
    THEN {Raised}
    ELSE IF n > 0 /\ equipment = <<>>
    THEN {Raised, Ok(Ids(1, n))}
    ELSE {Ok(Ids(1, n))}

(* generate_work_orders: work_order_id = service_call_id, one per call.    *)
ids_work_orders(service_calls) == Ok(service_calls)

(* generate_customer_feedback: a sample of min(n, len) calls, numbered     *)
(* i + 1.                                                                  *)
ids_customer_feedback(service_calls, n) ==
    Ok(Ids(1, Min(n, Len(service_calls))))

----------------------------------------------------------------------------
(* A save that appends to the files it finds and creates none.             *)
save_to_csv_existing_only(st, dataframes, incremental) ==
    [t \in Tables |->
        IF t \in DOMAIN dataframes /\ st[t].exists
        THEN IF incremental
             THEN File(st[t].rows \o dataframes[t])
             ELSE File(dataframes[t])
        ELSE st[t]]

(* A save that ignores the incremental flag and writes every file anew.    *)
save_to_csv_overwrite(st, dataframes, incremental) ==
    [t \in Tables |->
        IF t \in DOMAIN dataframes THEN File(dataframes[t]) ELSE st[t]]

(* save_to_csv: every table of the dictionary is appended to its file when *)
(* the run is incremental and the file exists, and otherwise written as a  *)
(* new file or over the old one.                                           *)
save_to_csv(st, dataframes, incremental) ==
    [t \in Tables |->
        IF t \in DOMAIN dataframes
        THEN IF incremental /\ st[t].exists
             THEN File(st[t].rows \o dataframes[t])
             ELSE File(dataframes[t])
        ELSE st[t]]

(* The tables main generates without --incremental, lines 904-947, per     *)
(* outcome of the random draws.  ok is FALSE when a generator raised.      *)
main_datasets ==
    LET customers == ids_base(N_CUSTOMERS)
        technicians == ids_base(N_TECHNICIANS)
        equipment == ids_base(N_EQUIPMENT)
        parts == ids_base(N_PARTS)
        installed_devices ==
            ids_installed_devices(customers.rows, equipment.rows,
                                  N_INSTALLATIONS)
        service_calls ==
            ids_service_calls(N_CALLS, 1, customers.rows, technicians.rows,
                              equipment.rows)
        mailing_list == ids_mailing_list(customers.rows, N_ADDITIONAL)
        subscriptions == ids_subscriptions(customers.rows, N_SUBSCRIPTIONS)
        invoices == ids_invoices(service_calls.rows, None)
        inventory == ids_inventory(parts.rows)
        appointments ==
            ids_appointments(customers.rows, technicians.rows,
                             service_calls.rows, N_APPOINTMENTS)
        work_orders == ids_work_orders(service_calls.rows)
        customer_feedback ==
            ids_customer_feedback(service_calls.rows, N_FEEDBACK)
        leads == ids_base(N_LEADS)
    IN  { [ok |-> /\ installed_devices.ok /\ service_calls.ok
                  /\ parts_usage.ok /\ incident_response.ok
                  /\ vehicle_fleet.ok /\ subscriptions.ok /\ payments.ok
                  /\ appointments.ok /\ quotes.ok,
           data |->
             [customers |-> customers.rows,
              technicians |-> technicians.rows,
              equipment_types |-> equipment.rows,
              parts |-> parts.rows,
              installed_devices |-> installed_devices.rows,
              service_calls |-> service_calls.rows,
              parts_usage |-> parts_usage.rows,
              incident_response |-> incident_response.rows,
              vehicle_fleet |-> vehicle_fleet.rows,
              mailing_list |-> mailing_list.rows,
              subscriptions |-> subscriptions.rows,
              invoices |-> invoices.rows,
              payments |-> payments.rows,
              inventory |-> inventory.rows,
              appointments |-> appointments.rows,
              quotes |-> quotes.rows,
              work_orders |-> work_orders.rows,
              customer_feedback |-> customer_feedback.rows,
              leads |-> leads.rows]]
          : parts_usage \in ids_parts_usage(service_calls.rows, parts.rows),
            incident_response \in
                ids_incident_response(service_calls.rows, technicians.rows,
                                      N_INCIDENTS),
            vehicle_fleet \in ids_vehicle_fleet(technicians.rows, N_VEHICLES),
            payments \in ids_payments(invoices.rows),
            quotes \in ids_quotes(customers.rows, equipment.rows, N_QUOTES) }

(* A check that looks for the first required file only.                   *)
customers_missing(st) == ~st["customers"].exists

(* The try block of generate_incremental_data, lines 703-718: read_csv of   *)
(* an absent file raises FileNotFoundError, whichever file it is.          *)
required_missing(st) == \E t \in Range(RequiredTables) : ~st[t].exists

(* The tables generate_incremental_data generates on store st, lines       *)
(* 703-759.  status is "no_existing_data" when a required file is missing  *)
(* (the FileNotFoundError branch) and "incremental_raised" when another    *)
(* exception propagates (a required file without rows, a generator).       *)
generate_incremental_data(st) ==
    IF required_missing(st)
    THEN {[status |-> "no_existing_data", data |-> <<>>]}
    ELSE IF \E t \in Range(RequiredTables) : st[t].rows = <<>>
    THEN {[status |-> "incremental_raised", data |-> <<>>]}
    ELSE
    LET existing_customers == st["customers"].rows
        existing_technicians == st["technicians"].rows
        existing_equipment == st["equipment_types"].rows
        existing_parts == st["parts"].rows
        existing_service_calls == st["service_calls"].rows
        next_customer_id == MaxOf(existing_customers) + 1
        next_technician_id == MaxOf(existing_technicians) + 1
        next_equipment_id == MaxOf(existing_equipment) + 1
        next_part_id == MaxOf(existing_parts) + 1
        next_service_call_id == MaxOf(existing_service_calls) + 1
        new_customers == ids_base_incremental(INC_CUSTOMERS, next_customer_id)
        new_technicians ==
            ids_base_incremental(INC_TECHNICIANS, next_technician_id)
        new_equipment == ids_base_incremental(INC_EQUIPMENT, next_equipment_id)
        new_parts == ids_base_incremental(INC_PARTS, next_part_id)
        all_customers == existing_customers \o new_customers.rows
        all_technicians == existing_technicians \o new_technicians.rows
        all_equipment == existing_equipment \o new_equipment.rows
        new_service_calls ==
            ids_service_calls(INC_CALLS, next_service_call_id, all_customers,
                              all_technicians, all_equipment)
        new_invoices == ids_invoices(new_service_calls.rows, None)
        new_appointments ==
            ids_appointments(all_customers, all_technicians,
                             new_service_calls.rows, INC_APPOINTMENTS)
        new_work_orders == ids_work_orders(new_service_calls.rows)
        new_customer_feedback ==
            ids_customer_feedback(new_service_calls.rows, INC_FEEDBACK)
        new_leads == ids_base(INC_LEADS)
    IN  { [status |->
             IF /\ new_service_calls.ok /\ new_parts_usage.ok
                /\ new_payments.ok /\ new_appointments.ok /\ new_quotes.ok
             THEN "incremental"
             ELSE "incremental_raised",
           data |->
             [customers |-> new_customers.rows,
              technicians |-> new_technicians.rows,
              equipment_types |-> new_equipment.rows,
              parts |-> new_parts.rows,
              service_calls |-> new_service_calls.rows,
              parts_usage |-> new_parts_usage.rows,
              invoices |-> new_invoices.rows,
              payments |-> new_payments.rows,
              appointments |-> new_appointments.rows,
              quotes |-> new_quotes.rows,
              work_orders |-> new_work_orders.rows,
              customer_feedback |-> new_customer_feedback.rows,
              leads |-> new_leads.rows]]
          : new_parts_usage \in
                ids_parts_usage(new_service_calls.rows,
                                existing_parts \o new_parts.rows),
            new_payments \in ids_payments(new_invoices.rows),
            new_quotes \in ids_quotes(all_customers, all_equipment,
                                      INC_QUOTES) }

----------------------------------------------------------------------------
(* The two invocations of main, lines 895-949.                             *)

(* python main.py                                                          *)
FullRun ==
    /\ \E r \in main_datasets :
        /\ store' = IF r.ok THEN save_to_csv(store, r.data, FALSE) ELSE store
        /\ lastRun' = IF r.ok THEN "full" ELSE "full_raised"
        /\ incSinceFull' = IF r.ok THEN 0 ELSE incSinceFull
    /\ prevRun' = lastRun
    /\ UNCHANGED <<genVars, runVars>>

(* An incremental run that saves without the incremental flag.            *)
IncrementalRun_not_appending ==
    /\ incSinceFull < MaxInc
    /\ \E r \in generate_incremental_data(store) :
        /\ store' = IF r.status = "incremental"
                    THEN save_to_csv(store, r.data, FALSE)
                    ELSE store
        /\ lastRun' = r.status
        /\ incSinceFull' = IF r.status = "incremental"
                           THEN incSinceFull + 1
                           ELSE incSinceFull
    /\ prevRun' = lastRun
    /\ UNCHANGED <<genVars, runVars>>

(* python main.py --incremental                                            *)
IncrementalRun ==
    /\ incSinceFull < MaxInc
    /\ \E r \in generate_incremental_data(store) :
        /\ store' = IF r.status = "incremental"
                    THEN save_to_csv(store, r.data, TRUE)
                    ELSE store
        /\ lastRun' = r.status
        /\ incSinceFull' = IF r.status = "incremental"
                           THEN incSinceFull + 1
                           ELSE incSinceFull
    /\ prevRun' = lastRun
    /\ UNCHANGED <<genVars, runVars>>

Init ==
    /\ store = EmptyStore
    /\ lastRun = "none"
    /\ prevRun = "none"
    /\ incSinceFull = 0
    /\ gen = "none"
    /\ args = <<>>
    /\ out = Raised
    /\ pc = "idle"
    /\ mode = "none"
    /\ called = <<>>
    /\ mem = <<>>
    /\ written = <<>>
    /\ runs = 0

Next == FullRun \/ IncrementalRun

Spec == Init /\ [][Next]_vars

(* The seeds directory is outside the program: a run may start on a        *)
(* directory from which files of an earlier full run have been removed.    *)
(* SpecMissing starts from the empty directory, or from the result of a    *)
(* full run without any subset of the required files or without any one    *)
(* other file.                                                             *)
MissingSets ==
    {Tables} \cup (SUBSET Range(RequiredTables)) \cup {{t} : t \in Tables}

InitMissing ==
    /\ \E r \in main_datasets, missing \in MissingSets :
        /\ r.ok
        /\ store = [t \in Tables |->
                       IF t \in missing THEN Absent ELSE File(r.data[t])]
    /\ lastRun = "none"
    /\ prevRun = "none"
    /\ incSinceFull = 0
    /\ gen = "none"
    /\ args = <<>>
    /\ out = Raised
    /\ pc = "idle"
    /\ mode = "none"
    /\ called = <<>>
    /\ mem = <<>>
    /\ written = <<>>
    /\ runs = 0

SpecMissing == InitMissing /\ [][Next]_vars

----------------------------------------------------------------------------
(* The generators, with the rows they return.  A table is a sequence of    *)
(* rows; a row is a record of its key, its foreign keys and the columns    *)
(* that decide which rows a later generator makes.  Each generator is the  *)
(* set of its possible outcomes over the random draws.                     *)

(* df[col].tolist()                                                        *)
Col(df, col) == [i \in DOMAIN df |-> df[i][col]]

(* random.choice(keys): any element of a non-empty list.                   *)
choice(keys) == Range(keys)

(* The tables whose i-th row is any member of rowsets[i].                  *)
RECURSIVE Product(_)
Product(rowsets) ==
    IF rowsets = <<>>
    THEN {<<>>}
    ELSE {<<h>> \o t : h \in Head(rowsets), t \in Product(Tail(rowsets))}

(* DataFrame.sample(n=m): m different rows of 1..len, in any order.        *)
RECURSIVE Arrangements(_, _)
Arrangements(S, m) ==
    IF m <= 0
    THEN {<<>>}
    ELSE UNION {{<<x>> \o t : t \in Arrangements(S \ {x}, m - 1)} : x \in S}

(* A sample that may draw the same row again.                              *)
sample_with_replacement(df, n) == [1..n -> DOMAIN df]

(* df.sample(n=n), lines 341 and 604: the positions of the rows drawn, in  *)
(* the order drawn.                                                        *)
sample(df, n) == Arrangements(DOMAIN df, n)

RECURSIVE Flatten(_)
Flatten(blocks) ==
    IF blocks = <<>> THEN <<>> ELSE Head(blocks) \o Flatten(Tail(blocks))

(* A base table: column col holds start, start + 1, ..., start + n - 1.    *)
Keyed(col, start, n) == [i \in 1..n |-> (col :> (start + i - 1))]

generate_customers(n_customers) ==
    {Ok(Keyed("customer_id", 1, n_customers))}

generate_technicians(n_technicians) ==
    {Ok(Keyed("technician_id", 1, n_technicians))}

generate_equipment_types(n_equipment) ==
    {Ok(Keyed("equipment_id", 1, n_equipment))}

generate_parts(n_parts) == {Ok(Keyed("part_id", 1, n_parts))}

generate_leads(n_leads) == {Ok(Keyed("lead_id", 1, n_leads))}

generate_customers_incremental(n_customers, start_id) ==
    {Ok(Keyed("customer_id", start_id, n_customers))}

generate_technicians_incremental(n_technicians, start_id) ==
    {Ok(Keyed("technician_id", start_id, n_technicians))}

generate_equipment_types_incremental(n_equipment, start_id) ==
    {Ok(Keyed("equipment_id", start_id, n_equipment))}

generate_parts_incremental(n_parts, start_id) ==
    {Ok(Keyed("part_id", start_id, n_parts))}

generate_installed_devices(customers_df, equipment_df, n_installations) ==
    IF n_installations > 0 /\ (customers_df = <<>> \/ equipment_df = <<>>)
    THEN {Raised}
    ELSE {Ok(t) : t \in Product(
            [i \in 1..n_installations |->
                {[installation_id |-> i, customer_id |-> c, equipment_id |-> e]
                    : c \in choice(Col(customers_df, "customer_id")),
                      e \in choice(Col(equipment_df, "equipment_id"))}])}

(* Service calls whose customer is drawn from 1..len(customers) + 1        *)
(* instead of from the customer keys.                                      *)
service_calls_from_any_customer(n_calls, start_id, customers_df, technicians_df, equipment_df) ==
    IF n_calls <= 0
    THEN {Raised}
    ELSE IF customers_df = <<>> \/ technicians_df = <<>> \/ equipment_df = <<>>
    THEN {Raised}
    ELSE {Ok(t) : t \in Product(
            [i \in 1..n_calls |->
                {[service_call_id |-> start_id + i - 1,
                  customer_id |-> c,
                  technician_id |-> te,
                  equipment_id |-> e,
                  service_type |-> ty]
                    : c \in 1..(Len(customers_df) + 1),
                      te \in choice(Col(technicians_df, "technician_id")),
                      e \in choice(Col(equipment_df, "equipment_id")),
                      ty \in choice(service_types)}])}

(* The loop and the total_cost assignment shared by generate_service_calls *)
(* (service_call_id i + 1) and generate_service_calls_incremental          *)
(* (start_id + i).  With no rows, pd.DataFrame([]) has no labor_cost       *)
(* column and the assignment raises.                                       *)
service_calls_from(n_calls, start_id, customers_df, technicians_df, equipment_df) ==
    IF n_calls <= 0
    THEN {Raised}
    ELSE IF customers_df = <<>> \/ technicians_df = <<>> \/ equipment_df = <<>>
    THEN {Raised}
    ELSE {Ok(t) : t \in Product(
            [i \in 1..n_calls |->
                {[service_call_id |-> start_id + i - 1,
                  customer_id |-> c,
                  technician_id |-> te,
                  equipment_id |-> e,
                  service_type |-> ty]
                    : c \in choice(Col(customers_df, "customer_id")),
                      te \in choice(Col(technicians_df, "technician_id")),
                      e \in choice(Col(equipment_df, "equipment_id")),
                      ty \in choice(service_types)}])}

generate_service_calls(customers_df, technicians_df, equipment_df, n_calls) ==
    service_calls_from(n_calls, 1, customers_df, technicians_df, equipment_df)

generate_service_calls_incremental(n_calls, start_id, customers_df, technicians_df, equipment_df) ==
    service_calls_from(n_calls, start_id, customers_df, technicians_df,
                       equipment_df)

(* The rows one call contributes, before usage_id is known: 0 to avg*2     *)
(* rows, each with a drawn part.                                           *)
usage_blocks(call, parts_df, avg) ==
    UNION {
        { [k \in 1..n_parts |->
              [service_call_id |-> call.service_call_id, part_id |-> pick[k]]]
          : pick \in [1..n_parts -> choice(Col(parts_df, "part_id"))] }
        : n_parts \in 0..(avg * 2) }

generate_parts_usage(service_calls_df, parts_df, avg) ==
    LET tables ==
            {Flatten(blocks) : blocks \in Product(
                [i \in DOMAIN service_calls_df |->
                    usage_blocks(service_calls_df[i], parts_df, avg)])}
        numbered(t) ==
            [k \in DOMAIN t |->
                [usage_id |-> k,
                 service_call_id |-> t[k].service_call_id,
                 part_id |-> t[k].part_id]]
    IN  {Ok(numbered(t)) : t \in tables}
        \cup (IF service_calls_df # <<>> /\ parts_df = <<>> /\ avg > 0
              THEN {Raised}
              ELSE {})

(* Every service call, whatever its service_type.                          *)
all_service_calls(df) == df

(* The rows of df whose service_type is 'Emergency', in order.             *)
emergency_rows(df) ==
    SelectSeq(df, LAMBDA call : call.service_type = "Emergency")

generate_incident_response(service_calls_df, technicians_df, n_incidents) ==
    IF service_calls_df = <<>>
    THEN {Raised}
    ELSE
    LET emergency_calls == emergency_rows(service_calls_df)
        rows == Min(n_incidents, Len(emergency_calls))
        backups ==
            {None} \cup (IF technicians_df = <<>>
                         THEN {}
                         ELSE choice(Col(technicians_df, "technician_id")))
    IN  {Ok(t) : t \in Product(
            [i \in 1..rows |->
                {[incident_id |-> i,
                  service_call_id |-> emergency_calls[i].service_call_id,
                  responding_technician_id |->
                      emergency_calls[i].technician_id,
                  backup_technician_id |-> b] : b \in backups}])}
        \cup (IF rows > 0 /\ technicians_df = <<>> THEN {Raised} ELSE {})

generate_vehicle_fleet(technicians_df, n_vehicles) ==
    LET assigned ==
            {None} \cup (IF technicians_df = <<>>
                         THEN {}
                         ELSE choice(Col(technicians_df, "technician_id")))
    IN  {Ok(t) : t \in Product(
            [i \in 1..n_vehicles |->
                {[vehicle_id |-> i, assigned_technician_id |-> a]
                    : a \in assigned}])}
        \cup (IF n_vehicles > 0 /\ technicians_df = <<>>
              THEN {Raised}
              ELSE {})

generate_mailing_list(customers_df, n_additional) ==
    LET existing ==
            [i \in DOMAIN customers_df |->
                [contact_id |-> i,
                 customer_id |-> customers_df[i].customer_id]]
        prospects ==
            [i \in 1..n_additional |->
                [contact_id |-> Len(existing) + i, customer_id |-> None]]
    IN  {Ok(existing \o prospects)}

generate_subscriptions(customers_df, n_subscriptions) ==
    IF n_subscriptions > 0 /\ customers_df = <<>>
    THEN {Raised}
    ELSE {Ok(t) : t \in Product(
            [i \in 1..n_subscriptions |->
                {[subscription_id |-> i, customer_id |-> c]
                    : c \in choice(Col(customers_df, "customer_id"))}])}

generate_invoices(service_calls_df, customers_df, n_invoices) ==
    LET n == IF n_invoices = None
             THEN DefaultInvoices(Len(service_calls_df))
             ELSE n_invoices
        m == Min(n, Len(service_calls_df))
        invoices(selected_calls) ==
            Product(
              [i \in 1..m |->
                {[invoice_id |-> i,
                  service_call_id |->
                      service_calls_df[selected_calls[i]].service_call_id,
                  customer_id |->
                      service_calls_df[selected_calls[i]].customer_id,
                  status |-> st] : st \in choice(invoice_status)}])
    IN  UNION { {Ok(t) : t \in invoices(selected_calls)}
                : selected_calls \in sample(service_calls_df, m) }

(* What one invoice contributes: a Paid invoice a payment, a Pending       *)
(* invoice a payment or none (the coin flip of line 406), any other none.  *)
payment_blocks(invoice) ==
    LET payment == <<[invoice_id |-> invoice.invoice_id]>>
    IN  IF invoice.status = "Paid"
        THEN {payment}
        ELSE IF invoice.status = "Pending"
        THEN {payment, <<>>}
        ELSE {<<>>}

generate_payments(invoices_df) ==
    IF invoices_df = <<>>
    THEN {Raised}
    ELSE
    LET payable_invoices ==
            SelectSeq(invoices_df,
                      LAMBDA invoice : invoice.status \in {"Paid", "Pending"})
        tables ==
            {Flatten(blocks) : blocks \in Product(
                [i \in DOMAIN payable_invoices |->
                    payment_blocks(payable_invoices[i])])}
    IN  {Ok([k \in DOMAIN t |->
                [payment_id |-> k, invoice_id |-> t[k].invoice_id]])
            : t \in tables}

generate_inventory(parts_df) ==
    {Ok([i \in DOMAIN parts_df |->
            [inventory_id |-> parts_df[i].part_id,
             part_id |-> parts_df[i].part_id]])}

(* A historical appointment that is still open.                            *)
historical_appointment_scheduled(appointment_id, call) ==
    [appointment_id |-> appointment_id,
     customer_id |-> call.customer_id,
     technician_id |-> call.technician_id,
     service_call_id |-> call.service_call_id,
     status |-> "Scheduled"]

(* The appointment of an existing service call, lines 475-493.             *)
historical_appointment(appointment_id, call) ==
    [appointment_id |-> appointment_id,
     customer_id |-> call.customer_id,
     technician_id |-> call.technician_id,
     service_call_id |-> call.service_call_id,
     status |-> "Completed"]

generate_appointments(customers_df, technicians_df, service_calls_df, n_appointments) ==
    LET historical ==
            [i \in DOMAIN service_calls_df |->
                historical_appointment(i, service_calls_df[i])]
        remaining_appointments == n_appointments - Len(historical)
    IN  IF remaining_appointments > 0
           /\ (customers_df = <<>> \/ technicians_df = <<>>)
        THEN {Raised}
        ELSE {Ok(historical \o t) : t \in Product(
                [i \in 1..remaining_appointments |->
                    {[appointment_id |-> Len(historical) + i,
                      customer_id |-> c,
                      technician_id |-> te,
                      service_call_id |-> None,
                      status |-> st]
                        : c \in choice(Col(customers_df, "customer_id")),
                          te \in choice(Col(technicians_df, "technician_id")),
                          st \in {"Scheduled", "Confirmed"}}])}

generate_quotes(customers_df, equipment_df, n_quotes) ==
    LET quoted ==
            {None} \cup (IF equipment_df = <<>>
                         THEN {}
                         ELSE choice(Col(equipment_df, "equipment_id")))
    IN  IF n_quotes > 0 /\ customers_df = <<>>
        THEN {Raised}
        ELSE {Ok(t) : t \in Product(
                [i \in 1..n_quotes |->
                    {[quote_id |-> i, customer_id |-> c, equipment_id |-> e]
                        : c \in choice(Col(customers_df, "customer_id")),
                          e \in quoted}])}
             \cup (IF n_quotes > 0 /\ equipment_df = <<>>
                   THEN {Raised}
                   ELSE {})

generate_work_orders(service_calls_df, technicians_df) ==
    {Ok([i \in DOMAIN service_calls_df |->
            [work_order_id |-> service_calls_df[i].service_call_id,
             service_call_id |-> service_calls_df[i].service_call_id,
             technician_id |-> service_calls_df[i].technician_id]])}

generate_customer_feedback(service_calls_df, customers_df, n_feedback) ==
    LET m == Min(n_feedback, Len(service_calls_df))
    IN  { Ok([i \in 1..m |->
                [feedback_id |-> i,
                 service_call_id |->
                     service_calls_df[selected_calls[i]].service_call_id,
                 customer_id |->
                     service_calls_df[selected_calls[i]].customer_id]])
          : selected_calls \in sample(service_calls_df, m) }

----------------------------------------------------------------------------
(* GenSpec: a behaviour is one call of one generator on arguments drawn    *)
(* from the tables a run can hold in memory; gen, args and out record the  *)
(* generator, its arguments and what it returned.                          *)

(* Rows of a parent table given to a generator.                            *)
MaxPool == 2

(* Requested row counts given to a generator.                              *)
MaxN == 1

(* Service calls (and invoices) of a table given to a dependent generator. *)
MaxCalls == 2

(* First key of an incremental batch.                                      *)
MaxStart == 2

(* Service calls of a table given to generate_parts_usage, which draws a   *)
(* list of parts for each of them.                                         *)
MaxUsageCalls == 1

(* In memory a base table holds the keys 1..p: those of a full run, or the *)
(* existing keys followed by the new ones (lines 727-729, 735).            *)
Pool(col) == {Keyed(col, 1, p) : p \in 0..MaxPool}

(* The service-call tables a dependent generator is given: consecutive     *)
(* keys from any start, customers and technicians of the tables in memory. *)
InputCalls(customers_df, technicians_df, types, max_calls) ==
    UNION { UNION {
        Product(
          [i \in 1..n |->
            {[service_call_id |-> start + i - 1,
              customer_id |-> c,
              technician_id |-> te,
              equipment_id |-> 1,
              service_type |-> ty]
                : c \in choice(Col(customers_df, "customer_id")),
                  te \in choice(Col(technicians_df, "technician_id")),
                  ty \in types}])
        : n \in 0..max_calls } : start \in 1..MaxStart }

(* The invoice tables generate_payments is given: keys 1..n, any statuses. *)
InputInvoices ==
    UNION {
        Product(
          [i \in 1..n |->
            {[invoice_id |-> i, service_call_id |-> i, customer_id |-> 1,
              status |-> st] : st \in choice(invoice_status)}])
        : n \in 0..MaxCalls }

Call_generate_customers ==
    /\ gen = "none"
    /\ \E n \in 0..MaxN :
           /\ gen' = "generate_customers"
           /\ args' = [n |-> n]
           /\ out' \in generate_customers(n)
           /\ UNCHANGED <<storeVars, runVars>>

Call_generate_technicians ==
    /\ gen = "none"
    /\ \E n \in 0..MaxN :
           /\ gen' = "generate_technicians"
           /\ args' = [n |-> n]
           /\ out' \in generate_technicians(n)
           /\ UNCHANGED <<storeVars, runVars>>

Call_generate_equipment_types ==
    /\ gen = "none"
    /\ \E n \in 0..MaxN :
           /\ gen' = "generate_equipment_types"
           /\ args' = [n |-> n]
           /\ out' \in generate_equipment_types(n)
           /\ UNCHANGED <<storeVars, runVars>>

Call_generate_parts ==
    /\ gen = "none"
    /\ \E n \in 0..MaxN :
           /\ gen' = "generate_parts"
           /\ args' = [n |-> n]
           /\ out' \in generate_parts(n)
           /\ UNCHANGED <<storeVars, runVars>>

Call_generate_leads ==
    /\ gen = "none"
    /\ \E n \in 0..MaxN :
           /\ gen' = "generate_leads"
           /\ args' = [n |-> n]
           /\ out' \in generate_leads(n)
           /\ UNCHANGED <<storeVars, runVars>>

Call_generate_customers_incremental ==
    /\ gen = "none"
    /\ \E n \in 0..MaxN, start_id \in 1..MaxStart :
           /\ gen' = "generate_customers_incremental"
           /\ args' = [n |-> n, start_id |-> start_id]
           /\ out' \in generate_customers_incremental(n, start_id)
           /\ UNCHANGED <<storeVars, runVars>>

Call_generate_technicians_incremental ==
    /\ gen = "none"
    /\ \E n \in 0..MaxN, start_id \in 1..MaxStart :
           /\ gen' = "generate_technicians_incremental"
           /\ args' = [n |-> n, start_id |-> start_id]
           /\ out' \in generate_technicians_incremental(n, start_id)
           /\ UNCHANGED <<storeVars, runVars>>

Call_generate_equipment_types_incremental ==
    /\ gen = "none"
    /\ \E n \in 0..MaxN, start_id \in 1..MaxStart :
           /\ gen' = "generate_equipment_types_incremental"
           /\ args' = [n |-> n, start_id |-> start_id]
           /\ out' \in generate_equipment_types_incremental(n, start_id)
           /\ UNCHANGED <<storeVars, runVars>>

Call_generate_parts_incremental ==
    /\ gen = "none"
    /\ \E n \in 0..MaxN, start_id \in 1..MaxStart :
           /\ gen' = "generate_parts_incremental"
           /\ args' = [n |-> n, start_id |-> start_id]
           /\ out' \in generate_parts_incremental(n, start_id)
           /\ UNCHANGED <<storeVars, runVars>>

Call_generate_installed_devices ==
    /\ gen = "none"
    /\ \E customers_df \in Pool("customer_id"),
          equipment_df \in Pool("equipment_id"), n \in 0..MaxN :
           /\ gen' = "generate_installed_devices"
           /\ args' = [customers_df |-> customers_df, equipment_df |-> equipment_df, n |-> n]
           /\ out' \in generate_installed_devices(customers_df, equipment_df, n)
           /\ UNCHANGED <<storeVars, runVars>>

Call_generate_service_calls ==
    /\ gen = "none"
    /\ \E customers_df \in Pool("customer_id"),
          technicians_df \in Pool("technician_id"),
          equipment_df \in Pool("equipment_id"), n \in 0..MaxN :
           /\ gen' = "generate_service_calls"
           /\ args' = [customers_df |-> customers_df, technicians_df |-> technicians_df, equipment_df |-> equipment_df, n |-> n]
           /\ out' \in generate_service_calls(customers_df, technicians_df, equipment_df, n)
           /\ UNCHANGED <<storeVars, runVars>>

Call_generate_service_calls_incremental ==
    /\ gen = "none"
    /\ \E customers_df \in Pool("customer_id"),
          technicians_df \in Pool("technician_id"),
          equipment_df \in Pool("equipment_id"), n \in 0..MaxN,
          start_id \in 1..MaxStart :
           /\ gen' = "generate_service_calls_incremental"
           /\ args' = [customers_df |-> customers_df, technicians_df |-> technicians_df, equipment_df |-> equipment_df, n |-> n, start_id |-> start_id]
           /\ out' \in generate_service_calls_incremental(n, start_id, customers_df, technicians_df, equipment_df)
           /\ UNCHANGED <<storeVars, runVars>>

Call_generate_parts_usage ==
    /\ gen = "none"
    /\ \E parts_df \in Pool("part_id") :
       \E service_calls_df \in
            InputCalls(Keyed("customer_id", 1, 1), Keyed("technician_id", 1, 1),
                       {"Repair"}, MaxUsageCalls) :
           /\ gen' = "generate_parts_usage"
           /\ args' = [service_calls_df |-> service_calls_df, parts_df |-> parts_df]
           /\ out' \in generate_parts_usage(service_calls_df, parts_df, avg_parts_per_call)
           /\ UNCHANGED <<storeVars, runVars>>

Call_generate_incident_response ==
    /\ gen = "none"
    /\ \E technicians_df \in Pool("technician_id"), n \in 0..MaxN :
       \E service_calls_df \in
            InputCalls(Keyed("customer_id", 1, 1), technicians_df,
                       {"Emergency", "Repair"}, MaxCalls) :
           /\ gen' = "generate_incident_response"
           /\ args' = [service_calls_df |-> service_calls_df, technicians_df |-> technicians_df, n |-> n]
           /\ out' \in generate_incident_response(service_calls_df, technicians_df, n)
           /\ UNCHANGED <<storeVars, runVars>>

Call_generate_vehicle_fleet ==
    /\ gen = "none"
    /\ \E technicians_df \in Pool("technician_id"), n \in 0..MaxN :
           /\ gen' = "generate_vehicle_fleet"
           /\ args' = [technicians_df |-> technicians_df, n |-> n]
           /\ out' \in generate_vehicle_fleet(technicians_df, n)
           /\ UNCHANGED <<storeVars, runVars>>

Call_generate_mailing_list ==
    /\ gen = "none"
    /\ \E customers_df \in Pool("customer_id"), n \in 0..MaxN :
           /\ gen' = "generate_mailing_list"
           /\ args' = [customers_df |-> customers_df, n |-> n]
           /\ out' \in generate_mailing_list(customers_df, n)
           /\ UNCHANGED <<storeVars, runVars>>

Call_generate_subscriptions ==
    /\ gen = "none"
    /\ \E customers_df \in Pool("customer_id"), n \in 0..MaxN :
           /\ gen' = "generate_subscriptions"
           /\ args' = [customers_df |-> customers_df, n |-> n]
           /\ out' \in generate_subscriptions(customers_df, n)
           /\ UNCHANGED <<storeVars, runVars>>

Call_generate_invoices ==
    /\ gen = "none"
    /\ \E customers_df \in Pool("customer_id"),
          n \in {None} \cup 0..(MaxCalls + 1) :
       \E service_calls_df \in
            InputCalls(customers_df, Keyed("technician_id", 1, 1), {"Repair"}, MaxCalls) :
           /\ gen' = "generate_invoices"
           /\ args' = [service_calls_df |-> service_calls_df, customers_df |-> customers_df, n |-> n]
           /\ out' \in generate_invoices(service_calls_df, customers_df, n)
           /\ UNCHANGED <<storeVars, runVars>>

Call_generate_payments ==
    /\ gen = "none"
    /\ \E invoices_df \in InputInvoices :
           /\ gen' = "generate_payments"
           /\ args' = [invoices_df |-> invoices_df]
           /\ out' \in generate_payments(invoices_df)
           /\ UNCHANGED <<storeVars, runVars>>

Call_generate_inventory ==
    /\ gen = "none"
    /\ \E parts_df \in Pool("part_id") :
           /\ gen' = "generate_inventory"
           /\ args' = [parts_df |-> parts_df]
           /\ out' \in generate_inventory(parts_df)
           /\ UNCHANGED <<storeVars, runVars>>

Call_generate_appointments ==
    /\ gen = "none"
    /\ \E customers_df \in Pool("customer_id"),
          technicians_df \in Pool("technician_id"), n \in 0..MaxCalls :
       \E service_calls_df \in
            InputCalls(customers_df, technicians_df, {"Repair"}, MaxCalls) :
           /\ gen' = "generate_appointments"
           /\ args' = [customers_df |-> customers_df, technicians_df |-> technicians_df, service_calls_df |-> service_calls_df, n |-> n]
           /\ out' \in generate_appointments(customers_df, technicians_df, service_calls_df, n)
           /\ UNCHANGED <<storeVars, runVars>>

Call_generate_quotes ==
    /\ gen = "none"
    /\ \E customers_df \in Pool("customer_id"),
          equipment_df \in Pool("equipment_id"), n \in 0..MaxN :
           /\ gen' = "generate_quotes"
           /\ args' = [customers_df |-> customers_df, equipment_df |-> equipment_df, n |-> n]
           /\ out' \in generate_quotes(customers_df, equipment_df, n)
           /\ UNCHANGED <<storeVars, runVars>>

Call_generate_work_orders ==
    /\ gen = "none"
    /\ \E technicians_df \in Pool("technician_id") :
       \E service_calls_df \in
            InputCalls(Keyed("customer_id", 1, 1), technicians_df, {"Repair"}, MaxCalls) :
           /\ gen' = "generate_work_orders"
           /\ args' = [service_calls_df |-> service_calls_df, technicians_df |-> technicians_df]
           /\ out' \in generate_work_orders(service_calls_df, technicians_df)
           /\ UNCHANGED <<storeVars, runVars>>

Call_generate_customer_feedback ==
    /\ gen = "none"
    /\ \E customers_df \in Pool("customer_id"), n \in 0..MaxN :
       \E service_calls_df \in
            InputCalls(customers_df, Keyed("technician_id", 1, 1), {"Repair"}, MaxCalls) :
           /\ gen' = "generate_customer_feedback"
           /\ args' = [service_calls_df |-> service_calls_df, customers_df |-> customers_df, n |-> n]
           /\ out' \in generate_customer_feedback(service_calls_df, customers_df, n)
           /\ UNCHANGED <<storeVars, runVars>>

GenNext ==
    \/ Call_generate_customers
    \/ Call_generate_technicians
    \/ Call_generate_equipment_types
    \/ Call_generate_parts
    \/ Call_generate_leads
    \/ Call_generate_customers_incremental
    \/ Call_generate_technicians_incremental
    \/ Call_generate_equipment_types_incremental
    \/ Call_generate_parts_incremental
    \/ Call_generate_installed_devices
    \/ Call_generate_service_calls
    \/ Call_generate_service_calls_incremental
    \/ Call_generate_parts_usage
    \/ Call_generate_incident_response
    \/ Call_generate_vehicle_fleet
    \/ Call_generate_mailing_list
    \/ Call_generate_subscriptions
    \/ Call_generate_invoices
    \/ Call_generate_payments
    \/ Call_generate_inventory
    \/ Call_generate_appointments
    \/ Call_generate_quotes
    \/ Call_generate_work_orders
    \/ Call_generate_customer_feedback

GenSpec == Init /\ [][GenNext]_vars

----------------------------------------------------------------------------
(* The value columns.  The rows above carry keys; the rows below carry the *)
(* amounts, hours and levels the same loops compute.  Money is counted in  *)
(* cents, hours in tenths, rates and shares in thousandths.                *)

(* Rows of a table of values.                                              *)
MaxRows == 1

(* round(num / den) to the nearest integer.  Python rounds the binary      *)
(* value of the float, so a decimal tie goes to either neighbour.          *)
round(num, den) ==
    LET q == num \div den
        r == num % den
    IN  IF 2 * r < den THEN {q} ELSE IF 2 * r > den THEN {q + 1} ELSE {q, q + 1}

(* Draws of round(random.uniform(1, 8), 1), in tenths of an hour.          *)
Durations == {10, 80}

(* Draws of random.randint(50, 100).                                       *)
HourlyRates == {50, 100}

(* Draws of round(random.uniform(0, 300), 2), in cents.                    *)
PartsCosts == {0, 30000}

(* Draws of random.uniform(1.1, 1.3), in thousandths.                      *)
Markups == {1100, 1213, 1300}

(* The tax rates of line 353, in thousandths.                              *)
TaxRates == {65, 75, 80, 85}

(* Draws of random.uniform(0.3, 0.8), in thousandths.                      *)
PartialShares == {300, 555, 800}

(* The row the loop appends, and the row after                             *)
(* df['total_cost'] = df['labor_cost'] + df['parts_cost'].                 *)
service_call_appended(id, duration, rate, parts_cost) ==
    [service_call_id |-> id,
     duration_hours |-> duration,
     labor_cost |-> duration * rate * 10,
     parts_cost |-> parts_cost,
     total_cost |-> 0]

(* A table returned without the assignment of lines 154-155.              *)
without_total_cost(row) == row

with_total_cost(row) ==
    [row EXCEPT !.total_cost = row.labor_cost + row.parts_cost]

(* The cost columns of generate_service_calls (start_id 1) and of          *)
(* generate_service_calls_incremental.                                     *)
service_call_costs(n_calls, start_id) ==
    IF n_calls <= 0
    THEN {Raised}
    ELSE {Ok([i \in DOMAIN t |-> with_total_cost(t[i])]) : t \in Product(
            [i \in 1..n_calls |->
                {service_call_appended(start_id + i - 1, d, r, p)
                    : d \in Durations, r \in HourlyRates, p \in PartsCosts}])}

(* Invoices whose tax is computed on the cost of the call, before markup.  *)
invoice_of_taxed_before_markup(i, call) ==
    UNION { UNION {
        {[invoice_id |-> i,
          service_call_id |-> call.service_call_id,
          subtotal |-> subtotal,
          tax_rate |-> tax_rate,
          tax_amount |-> tax_amount,
          total_amount |-> subtotal + tax_amount]
            : tax_amount \in round(call.total_cost * tax_rate, 1000)}
        : subtotal \in round(call.total_cost * markup, 1000) }
        : markup \in Markups, tax_rate \in TaxRates }

(* The amounts of the invoice of one call.                                 *)
invoice_of(i, call) ==
    UNION { UNION {
        {[invoice_id |-> i,
          service_call_id |-> call.service_call_id,
          subtotal |-> subtotal,
          tax_rate |-> tax_rate,
          tax_amount |-> tax_amount,
          total_amount |-> subtotal + tax_amount]
            : tax_amount \in round(subtotal * tax_rate, 1000)}
        : subtotal \in round(call.total_cost * markup, 1000) }
        : markup \in Markups, tax_rate \in TaxRates }

(* The amount columns of generate_invoices.                                 *)
invoice_amounts(service_calls_df, n_invoices) ==
    LET n == IF n_invoices = None
             THEN DefaultInvoices(Len(service_calls_df))
             ELSE n_invoices
        m == Min(n, Len(service_calls_df))
    IN  UNION { {Ok(t) : t \in Product(
                    [i \in 1..m |->
                        invoice_of(i, service_calls_df[selected_calls[i]])])}
                : selected_calls \in sample(service_calls_df, m) }

(* Payments in which a Pending invoice that pays, pays its total.          *)
payment_of_in_full(invoice) ==
    IF invoice.status = "Paid"
    THEN {<<[invoice_id |-> invoice.invoice_id,
             amount |-> invoice.total_amount]>>}
    ELSE IF invoice.status = "Pending"
    THEN {<<>>,
          <<[invoice_id |-> invoice.invoice_id,
             amount |-> invoice.total_amount]>>}
    ELSE {<<>>}

(* What one invoice contributes to the payments, before payment_id is      *)
(* known: a full payment, a partial payment or none.                       *)
payment_of(invoice) ==
    IF invoice.status = "Paid"
    THEN {<<[invoice_id |-> invoice.invoice_id,
             amount |-> invoice.total_amount]>>}
    ELSE IF invoice.status = "Pending"
    THEN {<<>>} \cup
         UNION { {<<[invoice_id |-> invoice.invoice_id,
                     amount |-> partial_amount]>>
                    : partial_amount \in
                          round(invoice.total_amount * share, 1000)}
                 : share \in PartialShares }
    ELSE {<<>>}

(* The amount columns of generate_payments.                                *)
payment_amounts(invoices_df) ==
    IF invoices_df = <<>>
    THEN {Raised}
    ELSE
    LET payable_invoices ==
            SelectSeq(invoices_df,
                      LAMBDA invoice : invoice.status \in {"Paid", "Pending"})
        tables ==
            {Flatten(blocks) : blocks \in Product(
                [i \in DOMAIN payable_invoices |->
                    payment_of(payable_invoices[i])])}
    IN  {Ok([k \in DOMAIN t |->
                [payment_id |-> k,
                 invoice_id |-> t[k].invoice_id,
                 amount |-> t[k].amount]])
            : t \in tables}

----------------------------------------------------------------------------
(* ValueSpec: a behaviour is one call of one generator, recorded with its  *)
(* value columns.                                                          *)

(* The service-call tables generate_invoices and generate_work_orders are  *)
(* given: what generate_service_calls returns.                             *)
InputCosts ==
    {<<>>} \cup UNION {{o.rows : o \in service_call_costs(n, 1)}
                          : n \in 1..MaxRows}

(* The cheapest and the dearest service call.                              *)
ExtremeCalls ==
    {with_total_cost(service_call_appended(1, 10, 50, 0)),
     with_total_cost(service_call_appended(1, 80, 100, 30000))}

(* The invoice tables generate_payments is given: invoices of the extreme  *)
(* calls, with any markup and tax rate and the status drawn at line 369.   *)
InputAmounts ==
    UNION { Product([i \in 1..n |->
                {invoice @@ ("status" :> st)
                    : invoice \in UNION {invoice_of(i, call)
                                            : call \in ExtremeCalls},
                      st \in choice(invoice_status)}])
            : n \in 0..MaxRows }

Values_generate_service_calls ==
    /\ gen = "none"
    /\ \E n \in 0..MaxRows :
           /\ gen' = "generate_service_calls"
           /\ args' = [n |-> n]
           /\ out' \in service_call_costs(n, 1)
           /\ UNCHANGED <<storeVars, runVars>>

Values_generate_service_calls_incremental ==
    /\ gen = "none"
    /\ \E n \in 0..MaxRows, start_id \in 1..MaxStart :
           /\ gen' = "generate_service_calls_incremental"
           /\ args' = [n |-> n, start_id |-> start_id]
           /\ out' \in service_call_costs(n, start_id)
           /\ UNCHANGED <<storeVars, runVars>>

Values_generate_invoices ==
    /\ gen = "none"
    /\ \E service_calls_df \in InputCosts, n \in {None} \cup 1..MaxRows :
           /\ gen' = "generate_invoices"
           /\ args' = [service_calls_df |-> service_calls_df, n |-> n]
           /\ out' \in invoice_amounts(service_calls_df, n)
           /\ UNCHANGED <<storeVars, runVars>>

Values_generate_payments ==
    /\ gen = "none"
    /\ \E invoices_df \in InputAmounts :
           /\ gen' = "generate_payments"
           /\ args' = [invoices_df |-> invoices_df]
           /\ out' \in payment_amounts(invoices_df)
           /\ UNCHANGED <<storeVars, runVars>>

----------------------------------------------------------------------------
(* The skill columns of the technicians.                                   *)

(* Lines 31 and 796.                                                       *)
levels == <<"junior", "senior", "lead", "specialist">>

(* Lines 32-33 and 797-798, as the column names of line 42.                *)
skills ==
    <<"hvac_installation_skill", "electrical_skill", "refrigeration_skill",
      "ductwork_skill", "diagnostics_skill", "customer_service_skill",
      "safety_protocols_skill">>

(* Lines 38 and 802.                                                       *)
base_skill(level) ==
    CASE level = "junior" -> 3
      [] level = "senior" -> 6
      [] level = "lead" -> 8
      [] level = "specialist" -> 9

(* The draws of random.randint(-2, 2) for the seven skills of a row: the   *)
(* same draw for six of them, any draw for the first.                      *)
Variances ==
    {[s \in Range(skills) |-> IF s = skills[1] THEN w ELSE v]
        : v \in -2..2, w \in -2..2}

(* A rating that is not clamped.                                           *)
skill_level_unclamped(base, skill_variance) == base + skill_variance

(* max(1, min(10, base_skill + skill_variance))                            *)
skill_level(base, skill_variance) ==
    Max(1, Min(10, base + skill_variance))

(* The level and skill columns of generate_technicians (start_id 1) and of *)
(* generate_technicians_incremental.                                       *)
technician_skills(n_technicians, start_id) ==
    {Ok(t) : t \in Product(
        [i \in 1..n_technicians |->
            {[technician_id |-> start_id + i - 1,
              technician_level |-> level,
              technician_skills |->
                  [s \in Range(skills) |->
                      skill_level(base_skill(level), variance[s])]]
                : level \in choice(levels), variance \in Variances}])}

Values_generate_technicians ==
    /\ gen = "none"
    /\ \E n \in 0..MaxRows :
           /\ gen' = "generate_technicians"
           /\ args' = [n |-> n]
           /\ out' \in technician_skills(n, 1)
           /\ UNCHANGED <<storeVars, runVars>>

Values_generate_technicians_incremental ==
    /\ gen = "none"
    /\ \E n \in 0..MaxRows, start_id \in 1..MaxStart :
           /\ gen' = "generate_technicians_incremental"
           /\ args' = [n |-> n, start_id |-> start_id]
           /\ out' \in technician_skills(n, start_id)
           /\ UNCHANGED <<storeVars, runVars>>

----------------------------------------------------------------------------
(* The hours of the work orders.                                           *)

(* Draws of random.uniform(-0.5, 1.0), in tenths of an hour.               *)
ActualDeltas == {-5, 0, 10}

(* Work orders numbered i + 1, as the other dependent tables are.          *)
work_order_hours_renumbered(service_calls_df) ==
    {Ok(t) : t \in Product(
        [i \in DOMAIN service_calls_df |->
            {[work_order_id |-> i,
              service_call_id |-> service_calls_df[i].service_call_id,
              technician_id |-> service_calls_df[i].technician_id,
              estimated_hours |-> service_calls_df[i].duration_hours,
              actual_hours |-> service_calls_df[i].duration_hours + delta]
                : delta \in ActualDeltas}])}

(* The key and hour columns of generate_work_orders; technicians_df is not *)
(* read.                                                                   *)
work_order_hours(service_calls_df) ==
    {Ok(t) : t \in Product(
        [i \in DOMAIN service_calls_df |->
            {[work_order_id |-> service_calls_df[i].service_call_id,
              service_call_id |-> service_calls_df[i].service_call_id,
              technician_id |-> service_calls_df[i].technician_id,
              estimated_hours |-> service_calls_df[i].duration_hours,
              actual_hours |-> service_calls_df[i].duration_hours + delta]
                : delta \in ActualDeltas}])}

(* The service-call tables generate_work_orders is given: those of a full  *)
(* run (start 1) or of an incremental run (start above the existing keys). *)
InputWorkCalls ==
    UNION { UNION {
        Product([i \in 1..n |->
            {[service_call_id |-> start + i - 1,
              technician_id |-> te,
              duration_hours |-> d]
                : te \in 1..MaxPool, d \in Durations}])
        : n \in 0..MaxRows } : start \in 1..(MaxStart + 1) }

Values_generate_work_orders ==
    /\ gen = "none"
    /\ \E service_calls_df \in InputWorkCalls :
           /\ gen' = "generate_work_orders"
           /\ args' = [service_calls_df |-> service_calls_df]
           /\ out' \in work_order_hours(service_calls_df)
           /\ UNCHANGED <<storeVars, runVars>>

----------------------------------------------------------------------------
(* The stock columns of the inventory.                                     *)

(* Draws of random.randint(0, 100).                                        *)
Stocks == {0, 5, 6, 25, 100}

(* Draws of random.randint(5, 25).                                         *)
ReorderPoints == {5, 25}

(* A status that is 'Low Stock' only below the reorder point.              *)
stock_status_below(current_stock, reorder_point) ==
    IF current_stock < reorder_point THEN "Low Stock" ELSE "In Stock"

(* 'Low Stock' if current_stock <= reorder_point else 'In Stock'           *)
stock_status(current_stock, reorder_point) ==
    IF current_stock <= reorder_point THEN "Low Stock" ELSE "In Stock"

(* The key and stock columns of generate_inventory.                        *)
inventory_stock(parts_df) ==
    {Ok(t) : t \in Product(
        [i \in DOMAIN parts_df |->
            {[inventory_id |-> parts_df[i].part_id,
              part_id |-> parts_df[i].part_id,
              current_stock |-> current_stock,
              reorder_point |-> reorder_point,
              stock_status |-> stock_status(current_stock, reorder_point)]
                : current_stock \in Stocks, reorder_point \in ReorderPoints}])}

Values_generate_inventory ==
    /\ gen = "none"
    /\ \E parts_df \in Pool("part_id") :
           /\ gen' = "generate_inventory"
           /\ args' = [parts_df |-> parts_df]
           /\ out' \in inventory_stock(parts_df)
           /\ UNCHANGED <<storeVars, runVars>>

ValueNext ==
    \/ Values_generate_inventory
    \/ Values_generate_work_orders
    \/ Values_generate_technicians
    \/ Values_generate_technicians_incremental
    \/ Values_generate_service_calls
    \/ Values_generate_service_calls_incremental
    \/ Values_generate_invoices
    \/ Values_generate_payments

ValueSpec == Init /\ [][ValueNext]_vars

----------------------------------------------------------------------------
(* PoolSpec: the tables generate_incremental_data passes to the generators *)
(* of new service calls and of new parts usage, lines 703-735, with the    *)
(* rows these return.  The files read hold the keys 1..existing, with     *)
(* existing in 1..MaxPool; the batch sizes of the base tables (5, 2, 3 and *)
(* 10 in the code) are drawn from 1..MaxN, and one new service call is     *)
(* generated (200 in the code).                                            *)

(* A frame that is only the existing rows.                                 *)
concat_existing_only(existing, new) == existing

(* pd.concat([existing, new])                                              *)
concat(existing, new) == existing \o new

(* The rows of a generator that draws nothing.                             *)
rows_of(outcomes) == (CHOOSE o \in outcomes : TRUE).rows

(* Lines 704-729: the tables passed to generate_service_calls_incremental  *)
(* at lines 731-732.                                                       *)
service_call_pools(existing, batch) ==
    LET existing_customers == Keyed("customer_id", 1, existing)
        existing_technicians == Keyed("technician_id", 1, existing)
        existing_equipment == Keyed("equipment_id", 1, existing)
        existing_service_calls == Keyed("service_call_id", 1, existing)
        next_customer_id ==
            MaxOf(Col(existing_customers, "customer_id")) + 1
        next_technician_id ==
            MaxOf(Col(existing_technicians, "technician_id")) + 1
        next_equipment_id ==
            MaxOf(Col(existing_equipment, "equipment_id")) + 1
        next_service_call_id ==
            MaxOf(Col(existing_service_calls, "service_call_id")) + 1
        new_customers ==
            rows_of(generate_customers_incremental(batch, next_customer_id))
        new_technicians ==
            rows_of(generate_technicians_incremental(batch,
                                                     next_technician_id))
        new_equipment ==
            rows_of(generate_equipment_types_incremental(batch,
                                                         next_equipment_id))
    IN  [existing_customers |-> existing_customers,
         existing_technicians |-> existing_technicians,
         existing_equipment |-> existing_equipment,
         new_customers |-> new_customers,
         new_technicians |-> new_technicians,
         new_equipment |-> new_equipment,
         customers_df |-> concat(existing_customers, new_customers),
         technicians_df |-> concat(existing_technicians, new_technicians),
         equipment_df |-> concat(existing_equipment, new_equipment),
         start_id |-> next_service_call_id]

(* Lines 707-735: the tables passed to generate_parts_usage at line 735.   *)
(* Of a call generate_parts_usage reads the key (and the date).            *)
parts_usage_pools(existing, batch, n_calls) ==
    LET existing_parts == Keyed("part_id", 1, existing)
        existing_service_calls == Keyed("service_call_id", 1, existing)
        next_part_id == MaxOf(Col(existing_parts, "part_id")) + 1
        next_service_call_id ==
            MaxOf(Col(existing_service_calls, "service_call_id")) + 1
        new_parts == rows_of(generate_parts_incremental(batch, next_part_id))
    IN  [existing_parts |-> existing_parts,
         new_parts |-> new_parts,
         service_calls_df |->
             Keyed("service_call_id", next_service_call_id, n_calls),
         parts_df |-> concat(existing_parts, new_parts)]

Pool_new_service_calls ==
    /\ gen = "none"
    /\ \E existing \in 1..MaxPool, batch \in 1..MaxN, n_calls \in {1} :
       \E pools \in {service_call_pools(existing, batch)} :
           /\ gen' = "new_service_calls"
           /\ args' = pools
           /\ out' \in generate_service_calls_incremental(n_calls, pools.start_id, pools.customers_df, pools.technicians_df, pools.equipment_df)
           /\ UNCHANGED <<storeVars, runVars>>

Pool_new_parts_usage ==
    /\ gen = "none"
    /\ \E existing \in 1..MaxPool, batch \in 1..MaxN, n_calls \in {1} :
       \E pools \in {parts_usage_pools(existing, batch, n_calls)} :
           /\ gen' = "new_parts_usage"
           /\ args' = pools
           /\ out' \in generate_parts_usage(pools.service_calls_df, pools.parts_df, avg_parts_per_call)
           /\ UNCHANGED <<storeVars, runVars>>

PoolNext == Pool_new_service_calls \/ Pool_new_parts_usage

PoolSpec == Init /\ [][PoolNext]_vars

----------------------------------------------------------------------------
(* RunSpec: an invocation of main, one generator call or one file per      *)
(* step.  The local variables of the run are in mem, under the name of the *)
(* table they hold; the frames an incremental run reads from the seeds     *)
(* directory are under "existing_" and the table name.                     *)

MaxRuns == 2

(* The generator calls of main without --incremental, lines 904-924, in    *)
(* source order: the table generated and the local variables passed.       *)
full_calls ==
    << [table |-> "customers", consumes |-> {}],
       [table |-> "technicians", consumes |-> {}],
       [table |-> "equipment_types", consumes |-> {}],
       [table |-> "parts", consumes |-> {}],
       [table |-> "installed_devices",
        consumes |-> {"customers", "equipment_types"}],
       [table |-> "service_calls",
        consumes |-> {"customers", "technicians", "equipment_types"}],
       [table |-> "parts_usage", consumes |-> {"service_calls", "parts"}],
       [table |-> "incident_response",
        consumes |-> {"service_calls", "technicians"}],
       [table |-> "vehicle_fleet", consumes |-> {"technicians"}],
       [table |-> "mailing_list", consumes |-> {"customers"}],
       [table |-> "subscriptions", consumes |-> {"customers"}],
       [table |-> "invoices", consumes |-> {"service_calls", "customers"}],
       [table |-> "payments", consumes |-> {"invoices"}],
       [table |-> "inventory", consumes |-> {"parts"}],
       [table |-> "appointments",
        consumes |-> {"customers", "technicians", "service_calls"}],
       [table |-> "quotes", consumes |-> {"customers", "equipment_types"}],
       [table |-> "work_orders",
        consumes |-> {"service_calls", "technicians"}],
       [table |-> "customer_feedback",
        consumes |-> {"service_calls", "customers"}],
       [table |-> "leads", consumes |-> {}] >>

(* The generator calls of generate_incremental_data, lines 721-742, in     *)
(* source order.  The start ids come from the existing frames (lines       *)
(* 710-714); all_customers, all_technicians and all_equipment (lines       *)
(* 727-729) and the parts of line 735 are an existing frame and a batch.   *)
incremental_calls ==
    << [table |-> "customers", consumes |-> {"existing_customers"}],
       [table |-> "technicians", consumes |-> {"existing_technicians"}],
       [table |-> "equipment_types",
        consumes |-> {"existing_equipment_types"}],
       [table |-> "parts", consumes |-> {"existing_parts"}],
       [table |-> "service_calls",
        consumes |-> {"existing_service_calls", "existing_customers",
                      "customers", "existing_technicians", "technicians",
                      "existing_equipment_types", "equipment_types"}],
       [table |-> "parts_usage",
        consumes |-> {"service_calls", "existing_parts", "parts"}],
       [table |-> "invoices",
        consumes |-> {"service_calls", "existing_customers", "customers"}],
       [table |-> "payments", consumes |-> {"invoices"}],
       [table |-> "appointments",
        consumes |-> {"existing_customers", "customers",
                      "existing_technicians", "technicians",
                      "service_calls"}],
       [table |-> "quotes",
        consumes |-> {"existing_customers", "customers",
                      "existing_equipment_types", "equipment_types"}],
       [table |-> "work_orders",
        consumes |-> {"service_calls", "existing_technicians",
                      "technicians"}],
       [table |-> "customer_feedback",
        consumes |-> {"service_calls", "existing_customers", "customers"}],
       [table |-> "leads", consumes |-> {}] >>

(* The calls of the branch of main that runs.                              *)
calls(m) == IF m = "incremental" THEN incremental_calls ELSE full_calls

(* The dictionary the branch passes to save_to_csv, in insertion order.    *)
datasets(m) == IF m = "incremental" THEN IncrementalTables ELSE FullTables

(* Calls made from the last statement to the first.                        *)
next_call_last_first(m, done) == calls(m)[Len(calls(m)) - Len(done)]

(* The statement that follows the calls already made.                      *)
next_call(m, done) == calls(m)[Len(done) + 1]

(* What the call of a full run can return, lines 904-924.                  *)
full_outcomes(table, locals) ==
    CASE table = "customers" -> {ids_base(N_CUSTOMERS)}
      [] table = "technicians" -> {ids_base(N_TECHNICIANS)}
      [] table = "equipment_types" -> {ids_base(N_EQUIPMENT)}
      [] table = "parts" -> {ids_base(N_PARTS)}
      [] table = "installed_devices" ->
            {ids_installed_devices(locals["customers"],
                                   locals["equipment_types"],
                                   N_INSTALLATIONS)}
      [] table = "service_calls" ->
            {ids_service_calls(N_CALLS, 1, locals["customers"],
                               locals["technicians"],
                               locals["equipment_types"])}
      [] table = "parts_usage" ->
            ids_parts_usage(locals["service_calls"], locals["parts"])
      [] table = "incident_response" ->
            ids_incident_response(locals["service_calls"],
                                  locals["technicians"], N_INCIDENTS)
      [] table = "vehicle_fleet" ->
            ids_vehicle_fleet(locals["technicians"], N_VEHICLES)
      [] table = "mailing_list" ->
            {ids_mailing_list(locals["customers"], N_ADDITIONAL)}
      [] table = "subscriptions" ->
            {ids_subscriptions(locals["customers"], N_SUBSCRIPTIONS)}
      [] table = "invoices" ->
            {ids_invoices(locals["service_calls"], None)}
      [] table = "payments" -> ids_payments(locals["invoices"])
      [] table = "inventory" -> {ids_inventory(locals["parts"])}
      [] table = "appointments" ->
            {ids_appointments(locals["customers"], locals["technicians"],
                              locals["service_calls"], N_APPOINTMENTS)}
      [] table = "quotes" ->
            ids_quotes(locals["customers"], locals["equipment_types"],
                       N_QUOTES)
      [] table = "work_orders" ->
            {ids_work_orders(locals["service_calls"])}
      [] table = "customer_feedback" ->
            {ids_customer_feedback(locals["service_calls"], N_FEEDBACK)}
      [] table = "leads" -> {ids_base(N_LEADS)}

(* What the call of an incremental run can return, lines 710-742.          *)
incremental_outcomes(table, locals) ==
    LET all_customers == locals["existing_customers"] \o locals["customers"]
        all_technicians ==
            locals["existing_technicians"] \o locals["technicians"]
        all_equipment ==
            locals["existing_equipment_types"] \o locals["equipment_types"]
    IN  CASE table = "customers" ->
                {ids_base_incremental(INC_CUSTOMERS,
                     MaxOf(locals["existing_customers"]) + 1)}
          [] table = "technicians" ->
                {ids_base_incremental(INC_TECHNICIANS,
                     MaxOf(locals["existing_technicians"]) + 1)}
          [] table = "equipment_types" ->
                {ids_base_incremental(INC_EQUIPMENT,
                     MaxOf(locals["existing_equipment_types"]) + 1)}
          [] table = "parts" ->
                {ids_base_incremental(INC_PARTS,
                     MaxOf(locals["existing_parts"]) + 1)}
          [] table = "service_calls" ->
                {ids_service_calls(INC_CALLS,
                     MaxOf(locals["existing_service_calls"]) + 1,
                     all_customers, all_technicians, all_equipment)}
          [] table = "parts_usage" ->
                ids_parts_usage(locals["service_calls"],
                                locals["existing_parts"] \o locals["parts"])
          [] table = "invoices" ->
                {ids_invoices(locals["service_calls"], None)}
          [] table = "payments" -> ids_payments(locals["invoices"])
          [] table = "appointments" ->
                {ids_appointments(all_customers, all_technicians,
                                  locals["service_calls"], INC_APPOINTMENTS)}
          [] table = "quotes" ->
                ids_quotes(all_customers, all_equipment, INC_QUOTES)
          [] table = "work_orders" ->
                {ids_work_orders(locals["service_calls"])}
          [] table = "customer_feedback" ->
                {ids_customer_feedback(locals["service_calls"],
                                       INC_FEEDBACK)}
          [] table = "leads" -> {ids_base(INC_LEADS)}

(* The outcomes of a call.  Reading a local variable that no statement has *)
(* assigned yet raises UnboundLocalError.  A call can also end in an       *)
(* exception its arguments do not decide (raised inside Faker, a           *)
(* MemoryError, a KeyboardInterrupt).                                      *)
call_outcomes(m, call, locals) ==
    IF ~(call.consumes \subseteq DOMAIN locals)
    THEN {Raised}
    ELSE {Raised} \cup
         (IF m = "incremental"
          THEN incremental_outcomes(call.table, locals)
          ELSE full_outcomes(call.table, locals))

(* python main.py: the else branch of main starts, line 901.               *)
StartFull ==
    /\ pc = "idle"
    /\ runs < MaxRuns
    /\ pc' = "generate"
    /\ mode' = "full"
    /\ called' = <<>>
    /\ mem' = <<>>
    /\ written' = <<>>
    /\ runs' = runs + 1
    /\ UNCHANGED <<storeVars, genVars>>

(* python main.py --incremental: the try block of                          *)
(* generate_incremental_data, lines 703-718.  A missing file ends the run  *)
(* with a message; a file without rows ends it with an exception.          *)
StartIncremental ==
    /\ pc = "idle"
    /\ runs < MaxRuns
    /\ incSinceFull < MaxInc
    /\ mode' = "incremental"
    /\ called' = <<>>
    /\ written' = <<>>
    /\ runs' = runs + 1
    /\ IF required_missing(store)
       THEN /\ pc' = "idle"
            /\ mem' = <<>>
            /\ lastRun' = "no_existing_data"
            /\ prevRun' = lastRun
       ELSE IF \E t \in Range(RequiredTables) : store[t].rows = <<>>
       THEN /\ pc' = "idle"
            /\ mem' = <<>>
            /\ lastRun' = "incremental_raised"
            /\ prevRun' = lastRun
       ELSE /\ pc' = "generate"
            /\ mem' = [existing_customers |-> store["customers"].rows,
                       existing_technicians |-> store["technicians"].rows,
                       existing_equipment_types |->
                           store["equipment_types"].rows,
                       existing_parts |-> store["parts"].rows,
                       existing_service_calls |->
                           store["service_calls"].rows]
            /\ UNCHANGED <<lastRun, prevRun>>
    /\ UNCHANGED <<store, incSinceFull, genVars>>

(* A run that writes the file of a table as soon as it has generated it.   *)
Generate_saving_each_table ==
    /\ pc = "generate"
    /\ LET call == next_call(mode, called)
       IN  \E o \in call_outcomes(mode, call, mem) :
              /\ called' = Append(called, call.table)
              /\ IF o.ok
                 THEN /\ mem' = (call.table :> o.rows) @@ mem
                      /\ pc' = IF Len(called') = Len(calls(mode))
                               THEN "save"
                               ELSE "generate"
                      /\ store' = save_to_csv(store, call.table :> o.rows,
                                              mode = "incremental")
                      /\ written' = Append(written, call.table)
                      /\ UNCHANGED <<lastRun, prevRun>>
                 ELSE /\ pc' = "idle"
                      /\ lastRun' = IF mode = "incremental"
                                    THEN "incremental_raised"
                                    ELSE "full_raised"
                      /\ prevRun' = lastRun
                      /\ UNCHANGED <<mem, store, written>>
    /\ UNCHANGED <<incSinceFull, mode, runs, genVars>>

(* The next generator call of the run.  Its table is assigned to a local   *)
(* variable; an exception propagates out of main, which has no handler     *)
(* (the try of generate_incremental_data ends at line 718).                *)
Generate ==
    /\ pc = "generate"
    /\ LET call == next_call(mode, called)
       IN  \E o \in call_outcomes(mode, call, mem) :
              /\ called' = Append(called, call.table)
              /\ IF o.ok
                 THEN /\ mem' = (call.table :> o.rows) @@ mem
                      /\ pc' = IF Len(called') = Len(calls(mode))
                               THEN "save"
                               ELSE "generate"
                      /\ UNCHANGED <<lastRun, prevRun>>
                 ELSE /\ pc' = "idle"
                      /\ lastRun' = IF mode = "incremental"
                                    THEN "incremental_raised"
                                    ELSE "full_raised"
                      /\ prevRun' = lastRun
                      /\ UNCHANGED mem
    /\ UNCHANGED <<store, incSinceFull, mode, written, runs, genVars>>

(* One turn of the loop of save_to_csv, lines 675-689, over the dictionary *)
(* built at lines 927-947 or 745-759: the next table is written.           *)
SaveTable ==
    /\ pc = "save"
    /\ Len(written) < Len(datasets(mode))
    /\ LET name == datasets(mode)[Len(written) + 1]
       IN  /\ store' = save_to_csv(store, name :> mem[name],
                                   mode = "incremental")
           /\ written' = Append(written, name)
    /\ UNCHANGED <<lastRun, prevRun, incSinceFull, pc, mode, called, mem,
                   runs, genVars>>

(* The loop is over: the run prints its totals and ends, lines 951-958 and *)
(* 763-770.                                                                *)
Finish ==
    /\ pc = "save"
    /\ Len(written) = Len(datasets(mode))
    /\ pc' = "idle"
    /\ lastRun' = mode
    /\ prevRun' = lastRun
    /\ incSinceFull' = IF mode = "incremental" THEN incSinceFull + 1 ELSE 0
    /\ UNCHANGED <<store, mode, called, mem, written, runs, genVars>>

RunNext == StartFull \/ StartIncremental \/ Generate \/ SaveTable \/ Finish

RunSpec == Init /\ [][RunNext]_vars

----------------------------------------------------------------------------
(* Claims about the table store.                                           *)

RunsOfIncremental == {"incremental", "incremental_raised", "no_existing_data"}

(* rows has no value twice.                                                *)
NoDuplicates(rows) ==
    \A i, j \in DOMAIN rows : rows[i] = rows[j] => i = j

(* a is an initial segment of b.                                           *)
IsPrefix(a, b) ==
    /\ Len(a) <= Len(b)
    /\ \A i \in 1..Len(a) : a[i] = b[i]

(* How often key k occurs in rows.                                         *)
Occurrences(rows, k) == Cardinality({i \in DOMAIN rows : rows[i] = k})

(* The requested count of a base table in the full run, and its batch in   *)
(* the incremental run.                                                    *)
FullCount(t) ==
    CASE t = "customers" -> N_CUSTOMERS
      [] t = "technicians" -> N_TECHNICIANS
      [] t = "equipment_types" -> N_EQUIPMENT
      [] t = "parts" -> N_PARTS
      [] t = "service_calls" -> N_CALLS

Batch(t) ==
    CASE t = "customers" -> INC_CUSTOMERS
      [] t = "technicians" -> INC_TECHNICIANS
      [] t = "equipment_types" -> INC_EQUIPMENT
      [] t = "parts" -> INC_PARTS
      [] t = "service_calls" -> INC_CALLS

(* C2 (as claimed): in every table of the store, also the dependent tables *)
(* an incremental run appends to, no primary-key value occurs in two rows. *)
C2_NoKeyTwice == \A t \in Tables : NoDuplicates(store[t].rows)

(* C3: after a full run and k incremental runs each base table holds       *)
(* exactly the keys 1, 2, ..., initial count + k * batch, in this order.   *)
C3_BaseKeysDense ==
    \A t \in Range(RequiredTables) :
        store[t].exists =>
            store[t].rows = Ids(1, FullCount(t) + incSinceFull * Batch(t))

C3_Witness ==
    /\ lastRun = "incremental"
    /\ incSinceFull >= 2
    /\ store["customers"].rows =
           Ids(1, N_CUSTOMERS) \o Ids(N_CUSTOMERS + 1, 2 * INC_CUSTOMERS)

(* C4: an incremental run that starts with any of the five required files  *)
(* absent reports "no existing data" and leaves every table as it was.     *)
C4_NoDataNoWrites ==
    [][ (/\ lastRun' \in RunsOfIncremental
         /\ \E t \in Range(RequiredTables) : ~store[t].exists)
          => (lastRun' = "no_existing_data" /\ store' = store) ]_vars

C4_Witness ==
    /\ lastRun = "no_existing_data"
    /\ ~store["service_calls"].exists
    /\ \A t \in Tables \ {"service_calls"} : store[t].exists

(* C5: an incremental run leaves the rows every table held before it in    *)
(* place and in order; what it adds comes after them.                      *)
C5_AppendOnly ==
    [][ lastRun' \in RunsOfIncremental
          => \A t \in Tables :
                /\ IsPrefix(store[t].rows, store'[t].rows)
                /\ (store[t].exists => store'[t].exists) ]_vars

C5_Witness ==
    /\ lastRun = "incremental"
    /\ \A t \in Range(IncrementalTables) \ {"parts_usage", "payments"} :
          Len(store[t].rows) > 0
    /\ Len(store["customers"].rows) = N_CUSTOMERS + INC_CUSTOMERS

(* C6 (as claimed): no run, a second full run included, removes a row that *)
(* an earlier run persisted.                                               *)
C6_NeverDeleted ==
    [][ \A t \in Tables : \A k \in Range(store[t].rows) :
            Occurrences(store'[t].rows, k) >= Occurrences(store[t].rows, k)
      ]_vars

(* C6 (amended): only a completed full run removes persisted rows; every   *)
(* other run keeps each row that was persisted before it.                  *)
C6_DeletedOnlyByFullRun ==
    [][ lastRun' # "full"
          => \A t \in Tables : \A k \in Range(store[t].rows) :
                Occurrences(store'[t].rows, k) >= Occurrences(store[t].rows, k)
      ]_vars

C6_Witness ==
    /\ lastRun = "incremental"
    /\ prevRun = "incremental"
    /\ \A k \in 1..N_CALLS : Occurrences(store["service_calls"].rows, k) = 1

(* C9 (as claimed): two full runs give every one of the 19 tables the same *)
(* number of rows.                                                         *)
C9_SameCounts ==
    [][ (lastRun = "full" /\ lastRun' = "full")
          => \A t \in Tables : Len(store'[t].rows) = Len(store[t].rows) ]_vars

(* The tables whose row count depends on random draws.                     *)
RandomCountTables == {"parts_usage", "payments", "incident_response"}

(* C9 (amended): two full runs give the same number of rows to every table *)
(* other than parts_usage, payments and incident_response.                 *)
C9_SameCountsFixedTables ==
    [][ (lastRun = "full" /\ lastRun' = "full")
          => \A t \in Tables \ RandomCountTables :
                Len(store'[t].rows) = Len(store[t].rows) ]_vars

C9_Witness ==
    /\ lastRun = "full"
    /\ prevRun = "full"
    /\ Len(store["parts_usage"].rows) > 0

----------------------------------------------------------------------------
(* Claims about one generator call (GenSpec).                              *)

(* The parent table and key column a foreign-key column refers to.         *)
ForeignKeys ==
    [customer_id |-> <<"customers_df", "customer_id">>,
     technician_id |-> <<"technicians_df", "technician_id">>,
     responding_technician_id |-> <<"technicians_df", "technician_id">>,
     backup_technician_id |-> <<"technicians_df", "technician_id">>,
     assigned_technician_id |-> <<"technicians_df", "technician_id">>,
     equipment_id |-> <<"equipment_df", "equipment_id">>,
     part_id |-> <<"parts_df", "part_id">>,
     service_call_id |-> <<"service_calls_df", "service_call_id">>,
     invoice_id |-> <<"invoices_df", "invoice_id">>]

(* The foreign-key columns of a row whose parent table was an argument.    *)
References(row) ==
    {c \in DOMAIN row \cap DOMAIN ForeignKeys :
        ForeignKeys[c][1] \in DOMAIN args}

ParentKeys(c) == Range(Col(args[ForeignKeys[c][1]], ForeignKeys[c][2]))

(* C1: every non-null foreign key of every row a generator returns is the  *)
(* key of a row of the parent table it was given.                          *)
C1_ForeignKeysPresent ==
    out.ok =>
        \A i \in DOMAIN out.rows :
            \A c \in References(out.rows[i]) :
                out.rows[i][c] # None => out.rows[i][c] \in ParentKeys(c)

C1_Witness ==
    /\ gen = "generate_service_calls_incremental"
    /\ out.ok
    /\ args.start_id > 1
    /\ Len(args.customers_df) = MaxPool
    /\ \E i \in DOMAIN out.rows : out.rows[i].customer_id = MaxPool

DependentGenerators ==
    {"generate_installed_devices", "generate_service_calls",
     "generate_parts_usage", "generate_incident_response",
     "generate_vehicle_fleet", "generate_subscriptions", "generate_invoices",
     "generate_payments", "generate_appointments", "generate_quotes",
     "generate_work_orders", "generate_customer_feedback"}

ParentTables ==
    {"customers_df", "technicians_df", "equipment_df", "parts_df",
     "service_calls_df", "invoices_df"}

(* C7 (as claimed): a dependent generator given an empty parent table      *)
(* returns zero rows and does not fail.                                    *)
C7_EmptyParentNoRows ==
    (/\ gen \in DependentGenerators
     /\ \E a \in DOMAIN args \cap ParentTables : args[a] = <<>>)
        => out = Ok(<<>>)

(* The generators that are given a requested row count.                    *)
CountedGenerators ==
    {"generate_customers", "generate_technicians", "generate_equipment_types",
     "generate_parts", "generate_leads", "generate_customers_incremental",
     "generate_technicians_incremental",
     "generate_equipment_types_incremental", "generate_parts_incremental",
     "generate_installed_devices", "generate_service_calls",
     "generate_service_calls_incremental", "generate_incident_response",
     "generate_vehicle_fleet", "generate_subscriptions", "generate_invoices",
     "generate_appointments", "generate_quotes",
     "generate_customer_feedback"}

(* The rows the claimed contract promises for the recorded call.           *)
PromisedRows ==
    IF gen = "generate_incident_response"
    THEN Min(args.n, Len(emergency_rows(args.service_calls_df)))
    ELSE IF gen \in {"generate_invoices", "generate_customer_feedback"}
    THEN Min(args.n, Len(args.service_calls_df))
    ELSE args.n

(* C8 (as claimed): a generator asked for N rows returns N rows, or        *)
(* min(N, candidates) when it is gated by a population; generate_          *)
(* appointments returns N rows whatever the size of service_calls.         *)
C8_RequestedCount ==
    (gen \in CountedGenerators /\ out.ok /\ args.n # None)
        => Len(out.rows) = PromisedRows

(* C10: given a non-empty service_calls table with E Emergency calls,      *)
(* generate_incident_response returns min(N, E) rows without failing, each *)
(* with the id of an Emergency call; none when E = 0.                      *)
C10_EmergencyOnly ==
    (gen = "generate_incident_response" /\ args.service_calls_df # <<>>)
        => LET emergency ==
                   {call \in Range(args.service_calls_df) :
                       call.service_type = "Emergency"}
           IN  /\ out.ok
               /\ Len(out.rows) = Min(args.n, Cardinality(emergency))
               /\ \A i \in DOMAIN out.rows :
                      \E call \in emergency :
                          out.rows[i].service_call_id = call.service_call_id
               /\ emergency = {} => out.rows = <<>>

C10_Witness ==
    /\ gen = "generate_incident_response"
    /\ args.n = 1
    /\ Len(args.service_calls_df) = 2
    /\ args.service_calls_df[1].service_type = "Repair"
    /\ args.service_calls_df[2].service_type = "Emergency"
    /\ out.ok
    /\ Len(out.rows) = 1
    /\ out.rows[1].service_call_id = args.service_calls_df[2].service_call_id

----------------------------------------------------------------------------
(* Claims about the value columns (ValueSpec).                             *)

(* The payments generate_payments returned for invoice.                    *)
PaymentsOf(invoice) ==
    {k \in DOMAIN out.rows : out.rows[k].invoice_id = invoice.invoice_id}

(* C11: generate_payments gives a Paid invoice exactly one payment, of the *)
(* invoice total; a Pending invoice none or one, of less than the total;   *)
(* an Overdue or Cancelled invoice none.                                   *)
C11_PaymentsByStatus ==
    (gen = "generate_payments" /\ args.invoices_df # <<>>)
        => /\ out.ok
           /\ \A i \in DOMAIN args.invoices_df :
                LET invoice == args.invoices_df[i]
                    paid == PaymentsOf(invoice)
                IN  CASE invoice.status = "Paid" ->
                           /\ Cardinality(paid) = 1
                           /\ \A k \in paid :
                                  out.rows[k].amount = invoice.total_amount
                      [] invoice.status = "Pending" ->
                           /\ Cardinality(paid) <= 1
                           /\ \A k \in paid :
                                  out.rows[k].amount < invoice.total_amount
                      [] OTHER -> paid = {}

C11_Witness ==
    /\ gen = "generate_payments"
    /\ out.ok
    /\ \E i \in DOMAIN args.invoices_df :
          /\ args.invoices_df[i].status = "Pending"
          /\ \E k \in PaymentsOf(args.invoices_df[i]) :
                out.rows[k].amount * 1000 >=
                    args.invoices_df[i].total_amount * 800

(* C16: in every row generate_service_calls and generate_service_calls_    *)
(* incremental return, total_cost is labor_cost + parts_cost, and not the  *)
(* 0 the row was built with.                                               *)
C16_TotalCost ==
    (gen \in {"generate_service_calls", "generate_service_calls_incremental"}
     /\ out.ok)
        => \A i \in DOMAIN out.rows :
              /\ out.rows[i].total_cost =
                     out.rows[i].labor_cost + out.rows[i].parts_cost
              /\ out.rows[i].total_cost # 0

C16_Witness ==
    /\ gen = "generate_service_calls_incremental"
    /\ out.ok
    /\ \E i \in DOMAIN out.rows :
          /\ out.rows[i].parts_cost > 0
          /\ out.rows[i].labor_cost = 80000
          /\ out.rows[i].total_cost = 110000

(* The service call of the argument an invoice refers to.                  *)
CallOf(invoice) ==
    CHOOSE call \in Range(args.service_calls_df) :
        call.service_call_id = invoice.service_call_id

(* C17: in every invoice row tax_amount is subtotal * tax_rate rounded to  *)
(* cents, total_amount is subtotal + tax_amount, and subtotal is the       *)
(* total_cost of its service call times a markup of 1.1 to 1.3, rounded.   *)
C17_InvoiceAmounts ==
    (gen = "generate_invoices" /\ out.ok)
        => \A i \in DOMAIN out.rows :
              LET invoice == out.rows[i]
                  cost == CallOf(invoice).total_cost
              IN  /\ invoice.tax_rate \in TaxRates
                  /\ invoice.tax_amount \in
                         round(invoice.subtotal * invoice.tax_rate, 1000)
                  /\ invoice.total_amount =
                         invoice.subtotal + invoice.tax_amount
                  /\ 2 * 1000 * invoice.subtotal >= 2 * cost * 1100 - 1000
                  /\ 2 * 1000 * invoice.subtotal <= 2 * cost * 1300 + 1000

C17_Witness ==
    /\ gen = "generate_invoices"
    /\ out.ok
    /\ \E i \in DOMAIN out.rows :
          /\ CallOf(out.rows[i]).total_cost = 5000
          /\ out.rows[i].subtotal = 6065
          /\ out.rows[i].tax_rate = 85
          /\ out.rows[i].tax_amount = 516
          /\ out.rows[i].total_amount = 6581

(* C18: in every technician row of generate_technicians and generate_      *)
(* technicians_incremental each of the seven skill values is an integer    *)
(* from 1 to 10 and at most 2 away from the base value of the row's level  *)
(* (junior 3, senior 6, lead 8, specialist 9).                             *)
C18_SkillsInRange ==
    (gen \in {"generate_technicians", "generate_technicians_incremental"}
     /\ out.ok)
        => \A i \in DOMAIN out.rows :
              LET technician == out.rows[i]
                  base == CASE technician.technician_level = "junior" -> 3
                            [] technician.technician_level = "senior" -> 6
                            [] technician.technician_level = "lead" -> 8
                            [] technician.technician_level = "specialist" -> 9
              IN  /\ DOMAIN technician.technician_skills = Range(skills)
                  /\ Cardinality(Range(skills)) = 7
                  /\ \A s \in Range(skills) :
                        /\ technician.technician_skills[s] \in 1..10
                        /\ technician.technician_skills[s] - base \in -2..2

C18_Witness ==
    /\ gen = "generate_technicians_incremental"
    /\ out.ok
    /\ \E i \in DOMAIN out.rows :
          /\ out.rows[i].technician_level = "specialist"
          /\ out.rows[i].technician_skills["hvac_installation_skill"] = 10
          /\ out.rows[i].technician_skills["electrical_skill"] = 7

(* C19: generate_work_orders returns one work order per service call of    *)
(* its input, in order, with work_order_id and service_call_id the id of   *)
(* the call, the call's technician_id, and estimated_hours the call's      *)
(* duration_hours; so the ids of the work orders of an incremental run are *)
(* those of its new service calls, above every persisted id.               *)
C19_WorkOrderPerCall ==
    gen = "generate_work_orders"
        => /\ out.ok
           /\ Len(out.rows) = Len(args.service_calls_df)
           /\ \A i \in DOMAIN out.rows :
                 LET call == args.service_calls_df[i]
                 IN  /\ out.rows[i].work_order_id = call.service_call_id
                     /\ out.rows[i].service_call_id = call.service_call_id
                     /\ out.rows[i].technician_id = call.technician_id
                     /\ out.rows[i].estimated_hours = call.duration_hours
           /\ \A i, j \in DOMAIN out.rows :
                 out.rows[i].work_order_id = out.rows[j].work_order_id
                     => i = j

C19_Witness ==
    /\ gen = "generate_work_orders"
    /\ out.ok
    /\ Len(out.rows) = MaxRows
    /\ out.rows[1].work_order_id = MaxStart + 1
    /\ out.rows[1].technician_id = MaxPool
    /\ out.rows[1].estimated_hours = 80
    /\ out.rows[1].actual_hours = 75

(* C19, its consequence in the store: after any runs the work_orders file  *)
(* holds the keys of the service_calls file, each once.                    *)
C19_StoredWorkOrders ==
    /\ store["work_orders"].rows = store["service_calls"].rows
    /\ \A i, j \in DOMAIN store["work_orders"].rows :
          store["work_orders"].rows[i] = store["work_orders"].rows[j]
              => i = j

(* C20: generate_inventory returns one row per part, in order, with        *)
(* inventory_id = part_id the key of the part, and stock_status is         *)
(* 'Low Stock' exactly when current_stock <= reorder_point and 'In Stock'  *)
(* otherwise.                                                              *)
C20_InventoryPerPart ==
    gen = "generate_inventory"
        => /\ out.ok
           /\ Len(out.rows) = Len(args.parts_df)
           /\ \A i \in DOMAIN out.rows :
                 /\ out.rows[i].part_id = args.parts_df[i].part_id
                 /\ out.rows[i].inventory_id = out.rows[i].part_id
                 /\ out.rows[i].stock_status \in {"Low Stock", "In Stock"}
                 /\ out.rows[i].stock_status = "Low Stock"
                        <=> out.rows[i].current_stock
                                <= out.rows[i].reorder_point

C20_Witness ==
    /\ gen = "generate_inventory"
    /\ out.ok
    /\ \E i \in DOMAIN out.rows :
          /\ out.rows[i].current_stock = out.rows[i].reorder_point
          /\ out.rows[i].stock_status = "Low Stock"

----------------------------------------------------------------------------
(* Claims about the tables an incremental run draws from (PoolSpec).       *)

Keys(df, col) == Range(Col(df, col))

(* C13: in an incremental run the table a generator of new rows draws from *)
(* holds exactly the pre-existing and the newly generated parent rows, and *)
(* each new service call's customer_id, technician_id and equipment_id and *)
(* each new parts-usage row's part_id is a key of that table.              *)
C13_PoolIsUnion ==
    /\ gen = "new_service_calls" =>
        /\ Keys(args.customers_df, "customer_id") =
               Keys(args.existing_customers, "customer_id")
                   \cup Keys(args.new_customers, "customer_id")
        /\ Keys(args.technicians_df, "technician_id") =
               Keys(args.existing_technicians, "technician_id")
                   \cup Keys(args.new_technicians, "technician_id")
        /\ Keys(args.equipment_df, "equipment_id") =
               Keys(args.existing_equipment, "equipment_id")
                   \cup Keys(args.new_equipment, "equipment_id")
        /\ out.ok
        /\ \A i \in DOMAIN out.rows :
              /\ out.rows[i].customer_id
                     \in Keys(args.customers_df, "customer_id")
              /\ out.rows[i].technician_id
                     \in Keys(args.technicians_df, "technician_id")
              /\ out.rows[i].equipment_id
                     \in Keys(args.equipment_df, "equipment_id")
    /\ gen = "new_parts_usage" =>
        /\ Keys(args.parts_df, "part_id") =
               Keys(args.existing_parts, "part_id")
                   \cup Keys(args.new_parts, "part_id")
        /\ out.ok =>
              \A i \in DOMAIN out.rows :
                  out.rows[i].part_id \in Keys(args.parts_df, "part_id")

(* A new service call of a pre-existing customer and a technician created  *)
(* in the same run.                                                        *)
C13_Witness ==
    /\ gen = "new_service_calls"
    /\ out.ok
    /\ \E i \in DOMAIN out.rows :
          /\ out.rows[i].customer_id
                 \in Keys(args.existing_customers, "customer_id")
          /\ out.rows[i].technician_id
                 \in Keys(args.new_technicians, "technician_id")
          /\ out.rows[i].service_call_id = Len(args.existing_customers) + 1

----------------------------------------------------------------------------
(* Claims about the tables a run writes (SpecMissing).                     *)

AppendedTables ==
    {"customers", "technicians", "equipment_types", "parts", "service_calls",
     "parts_usage", "invoices", "payments", "appointments", "quotes",
     "work_orders", "customer_feedback", "leads"}

OmittedTables ==
    {"installed_devices", "incident_response", "vehicle_fleet",
     "mailing_list", "subscriptions", "inventory"}

(* The tables that can get no row from a run: their row count is drawn.    *)
PossiblyEmpty == {"parts_usage", "payments", "incident_response"}

(* C14: a successful incremental run writes the 13 appended tables, each   *)
(* file existing afterwards with its old rows first (and more rows, unless *)
(* the batch of the table came out empty), and leaves the six omitted      *)
(* tables as they were; a full run writes all 19 tables.                   *)
C14_TablesWritten ==
    [][ /\ lastRun' = "incremental" =>
            /\ AppendedTables \cup OmittedTables = Tables
            /\ Cardinality(AppendedTables) = 13
            /\ \A t \in OmittedTables : store'[t] = store[t]
            /\ \A t \in AppendedTables :
                  /\ store'[t].exists
                  /\ \A i \in DOMAIN store[t].rows :
                        /\ i \in DOMAIN store'[t].rows
                        /\ store'[t].rows[i] = store[t].rows[i]
                  /\ t \notin PossiblyEmpty
                        => Len(store'[t].rows) > Len(store[t].rows)
        /\ lastRun' = "full" =>
            /\ Cardinality(Tables) = 19
            /\ \A t \in Tables :
                  /\ store'[t].exists
                  /\ t \notin PossiblyEmpty => store'[t].rows # <<>>
      ]_vars

(* An incremental run has created the leads file, which was missing, and   *)
(* appended to the others.                                                 *)
C14_Witness ==
    /\ lastRun = "incremental"
    /\ prevRun = "none"
    /\ store["leads"].rows = Ids(1, INC_LEADS)
    /\ Len(store["customers"].rows) = N_CUSTOMERS + INC_CUSTOMERS
    /\ \A t \in OmittedTables : store[t].exists

----------------------------------------------------------------------------
(* Claims about the steps of a run (RunSpec).                              *)

(* Every generator call of the run in progress has returned its table.     *)
AllGenerated ==
    \A i \in DOMAIN calls(mode) : calls(mode)[i].table \in DOMAIN mem

(* The rows of t are the last rows of s.                                   *)
EndsWith(s, t) ==
    /\ Len(t) <= Len(s)
    /\ \A i \in DOMAIN t : s[Len(s) - Len(t) + i] = t[i]

(* C12: a run is all-or-nothing with respect to the table store.  A step   *)
(* changes a file, or counts as a write, only when every table of the run  *)
(* has been generated; a run that ends because a generator raised has      *)
(* written no table and leaves the store as it is; a run that ends after   *)
(* its save has written its full set of tables (19 or 13), each file       *)
(* existing and ending with the rows generated for it.                     *)
C12_AllOrNothing ==
    [][ /\ store' # store => AllGenerated /\ written' # written
        /\ (written' # written /\ written' # <<>>) => AllGenerated
        /\ (/\ pc = "generate"
            /\ pc' = "idle"
            /\ lastRun' \in {"full_raised", "incremental_raised"})
              => written' = <<>> /\ store' = store
        /\ (pc = "save" /\ pc' = "idle")
              => /\ lastRun' = mode
                 /\ Len(written') = IF mode = "full" THEN 19 ELSE 13
                 /\ Cardinality(Range(written')) = Len(written')
                 /\ \A t \in Range(written') :
                       /\ store'[t].exists
                       /\ EndsWith(store'[t].rows, mem[t])
      ]_vars

(* An incremental run after a full run has ended in an exception of one of *)
(* its later generators, and the files of the full run are as they were.   *)
C12_Witness ==
    /\ pc = "idle"
    /\ lastRun = "incremental_raised"
    /\ prevRun = "full"
    /\ Len(called) > 5
    /\ written = <<>>
    /\ \A t \in Tables : store[t].exists
    /\ store["customers"].rows = Ids(1, N_CUSTOMERS)
    /\ store["service_calls"].rows = Ids(1, N_CALLS)

(* The tables the claim names as parents of a table.                       *)
NamedParents(t) ==
    CASE t \in {"installed_devices", "service_calls"} ->
            {"customers", "technicians", "equipment_types", "parts"}
      [] t \in {"parts_usage", "incident_response", "invoices",
                "appointments", "work_orders", "customer_feedback"} ->
            {"service_calls"}
      [] t = "payments" -> {"invoices"}
      [] OTHER -> {}

(* C15: in both run modes, when a generator is called every table it is    *)
(* passed, and every parent the claim names for it, has been returned by   *)
(* a call made earlier in the run.                                         *)
C15_DependencyOrder ==
    \A i \in DOMAIN called :
        LET earlier == {called[j] : j \in 1..(i - 1)}
            call == CHOOSE c \in Range(calls(mode)) : c.table = called[i]
        IN  /\ (call.consumes \cap Tables) \subseteq earlier
            /\ NamedParents(called[i]) \subseteq earlier

(* An incremental run after a full run has called all its generators,      *)
(* payments after invoices after service calls.                            *)
C15_Witness ==
    /\ pc = "save"
    /\ mode = "incremental"
    /\ lastRun = "full"
    /\ Len(called) = 13
    /\ mem["payments"] # <<>>
    /\ mem["invoices"] # <<>>

----------------------------------------------------------------------------
(* Claims about the rows of invoices and appointments (GenSpec).           *)

(* C21: generate_invoices returns min(n_invoices, number of service calls) *)
(* rows, n_invoices defaulting to floor(0.85 * number of service calls);   *)
(* no service call is referenced by two invoices, and every invoice has    *)
(* the customer_id of the service call it references.                      *)
C21_InvoicesPerCall ==
    gen = "generate_invoices" =>
        LET service_calls == args.service_calls_df
            n_invoices == IF args.n = None
                          THEN (Len(service_calls) * 85) \div 100
                          ELSE args.n
        IN  /\ out.ok
            /\ Len(out.rows) = Min(n_invoices, Len(service_calls))
            /\ \A i, j \in DOMAIN out.rows :
                  i # j => out.rows[i].service_call_id
                               # out.rows[j].service_call_id
            /\ \A i \in DOMAIN out.rows :
                  \E k \in DOMAIN service_calls :
                      /\ service_calls[k].service_call_id
                            = out.rows[i].service_call_id
                      /\ service_calls[k].customer_id
                            = out.rows[i].customer_id

(* More invoices were asked for than there are calls: both calls, of       *)
(* different customers, are invoiced, the later call first.                *)
C21_Witness ==
    /\ gen = "generate_invoices"
    /\ args.n = MaxCalls + 1
    /\ Len(args.service_calls_df) = MaxCalls
    /\ Len(out.rows) = MaxCalls
    /\ args.service_calls_df[1].customer_id
          # args.service_calls_df[2].customer_id
    /\ out.rows[1].service_call_id > out.rows[2].service_call_id
    /\ out.rows[1].customer_id = args.service_calls_df[2].customer_id

(* C22: the table generate_appointments returns has, for every input       *)
(* service call, exactly one row with its service_call_id, and that row    *)
(* has the call's customer_id and technician_id and status 'Completed';    *)
(* its other rows are max(0, N - number of service calls) rows with a null *)
(* service_call_id and status 'Scheduled' or 'Confirmed'; appointment_id   *)
(* is 1..(total rows) in row order.  The call returns a table unless a     *)
(* row without a service call has to be drawn from an empty customers or   *)
(* technicians table.                                                      *)
C22_AppointmentsPerCall ==
    gen = "generate_appointments" =>
        LET service_calls == args.service_calls_df
            remaining == Max(0, args.n - Len(service_calls))
            linked == {i \in DOMAIN out.rows :
                          out.rows[i].service_call_id # None}
            future == DOMAIN out.rows \ linked
        IN  /\ ~out.ok =>
                  /\ remaining > 0
                  /\ args.customers_df = <<>> \/ args.technicians_df = <<>>
            /\ out.ok =>
                  /\ Cardinality(linked) = Len(service_calls)
                  /\ \A k \in DOMAIN service_calls :
                        \E i \in linked :
                            /\ out.rows[i].service_call_id
                                  = service_calls[k].service_call_id
                            /\ out.rows[i].customer_id
                                  = service_calls[k].customer_id
                            /\ out.rows[i].technician_id
                                  = service_calls[k].technician_id
                  /\ \A i \in linked : out.rows[i].status = "Completed"
                  /\ Cardinality(future) = remaining
                  /\ \A i \in future :
                        out.rows[i].status \in {"Scheduled", "Confirmed"}
                  /\ \A i \in DOMAIN out.rows : out.rows[i].appointment_id = i

(* One service call numbered from MaxStart and two appointments asked for: *)
(* the appointment of the call, then one without a service call.           *)
C22_Witness ==
    /\ gen = "generate_appointments"
    /\ out.ok
    /\ args.n = 2
    /\ Len(args.service_calls_df) = 1
    /\ args.service_calls_df[1].service_call_id = MaxStart
    /\ Len(out.rows) = 2
    /\ out.rows[1].service_call_id = MaxStart
    /\ out.rows[1].status = "Completed"
    /\ out.rows[2].service_call_id = None
    /\ out.rows[2].status = "Confirmed"
    /\ out.rows[2].appointment_id = 2

====
